---- MODULE Spec2Model ----
(***************************************************************************)
(* Great Salt Lake density viewer: the IDW interpolation and overlay       *)
(* rendering pipeline (heatmap-renderer.tsx) and the time / playback state *)
(* of GreatSaltLakeHeatmap and TimeControls.                               *)
(*                                                                         *)
(* JavaScript numbers are modelled as binary floating point values with a  *)
(* significand of MantissaBits bits (round to nearest, ties to even), an   *)
(* unbounded exponent, and the special values NaN, +Infinity, -Infinity.   *)
(* A value is a record [k, m, e]: k = "num" stands for m * 2^e.            *)
(***************************************************************************)
EXTENDS Integers, Sequences, FiniteSets, TLC

\* ------------------------------------------------------------------------
\* Bounds of the model
\* ------------------------------------------------------------------------
MantissaBits == 5
MaxPoints == 2
MaxTimePoints == 3
\* the offscreen canvas of the model is MaxCols x MaxRows cells
\* (the renderer's canvas is 600 x 375 pixels, 120 x 75 cells)
MaxCols == 2
MaxRows == 1
\* pending styledata callbacks: the props do not change again while the
\* style is loading and MaxOnce callbacks wait
MaxOnce == 1

\* ------------------------------------------------------------------------
\* JavaScript number arithmetic
\* ------------------------------------------------------------------------
Pow2(n) == IF n <= 0 THEN 1 ELSE 2 ^ n

Abs(i) == IF i < 0 THEN 0 - i ELSE i

Sgn(i) == IF i < 0 THEN 0 - 1 ELSE IF i > 0 THEN 1 ELSE 0

Min2(a, b) == IF a <= b THEN a ELSE b

\* number of bits of a non-negative integer
RECURSIVE BitLen(_)
BitLen(n) ==
    IF n <= 0 THEN 0
    ELSE IF n >= 16 THEN 4 + BitLen(n \div 16)
    ELSE IF n >= 8 THEN 4 ELSE IF n >= 4 THEN 3 ELSE IF n >= 2 THEN 2 ELSE 1

NaN == [k |-> "NaN", m |-> 0, e |-> 0]
PosInf == [k |-> "Inf", m |-> 1, e |-> 0]
NegInf == [k |-> "Inf", m |-> 0 - 1, e |-> 0]
\* the JavaScript value null (result of idw when no value is defined)
Null == [k |-> "null", m |-> 0, e |-> 0]
\* the JavaScript value undefined (a key absent from the data slice)
Undefined == [k |-> "undefined", m |-> 0, e |-> 0]

\* canonical form of m * 2^e: m odd, or zero
RECURSIVE Norm(_, _)
Norm(m, e) ==
    IF m = 0 THEN [k |-> "num", m |-> 0, e |-> 0]
    ELSE IF m % 2 = 0 THEN Norm(m \div 2, e + 1)
    ELSE [k |-> "num", m |-> m, e |-> e]

\* m * 2^e rounded to MantissaBits significant bits, ties to even
\* (the magnitude a of m has s bits too many: q are the bits kept, r the
\* bits dropped and half the weight of the first dropped bit)
RoundShifted(m, e, s, q, r, half) ==
    Norm(Sgn(m) * (IF r > half \/ (r = half /\ q % 2 = 1) THEN q + 1 ELSE q), e + s)

RoundBy(m, e, a, s) ==
    IF s <= 0 THEN Norm(m, e)
    ELSE RoundShifted(m, e, s, a \div Pow2(s), a % Pow2(s), Pow2(s - 1))

Round(m, e) == RoundBy(m, e, Abs(m), BitLen(Abs(m)) - MantissaBits)

FromInt(i) == Round(i, 0)

IsNum(a) == a.k = "num"
IsInf(a) == a.k = "Inf"
IsNaNv(a) == a.k = "NaN"
\* isFinite(x) of JavaScript (applied to numbers)
IsFinite(a) == a.k = "num"
\* typeof x === 'number'
IsNumberType(a) == a.k \in {"num", "Inf", "NaN"}
\* sign of a number that is not NaN
SignOf(a) == Sgn(a.m)

Zero == Norm(0, 0)
One == Norm(1, 0)

\* position of the leading bit of a finite non-zero value
Top(a) == BitLen(Abs(a.m)) + a.e

Neg(a) == IF IsNaNv(a) THEN NaN ELSE [a EXCEPT !.m = 0 - a.m]

\* the sum of two finite values, with both mantissas at exponent e
AddAligned(a, b, e) == Round(a.m * Pow2(a.e - e) + b.m * Pow2(b.e - e), e)

Add(a, b) ==
    IF IsNaNv(a) \/ IsNaNv(b) THEN NaN
    ELSE IF IsInf(a) /\ IsInf(b) THEN (IF a.m = b.m THEN a ELSE NaN)
    ELSE IF IsInf(a) THEN a
    ELSE IF IsInf(b) THEN b
    ELSE IF a.m = 0 THEN b
    ELSE IF b.m = 0 THEN a
    ELSE IF Top(a) - Top(b) > MantissaBits + 1 THEN a
    ELSE IF Top(b) - Top(a) > MantissaBits + 1 THEN b
    ELSE AddAligned(a, b, Min2(a.e, b.e))

Sub(a, b) == Add(a, Neg(b))

Mul(a, b) ==
    IF IsNaNv(a) \/ IsNaNv(b) THEN NaN
    ELSE IF IsInf(a) \/ IsInf(b) THEN
        (IF SignOf(a) * SignOf(b) = 0 THEN NaN
         ELSE IF SignOf(a) * SignOf(b) > 0 THEN PosInf ELSE NegInf)
    ELSE Round(a.m * b.m, a.e + b.e)

\* the quotient of two finite non-zero values: n is |a.m| shifted left by
\* sh bits, a sticky bit records an inexact integer division
DivShifted(a, b, sh, n) ==
    Round(Sgn(a.m) * Sgn(b.m) * (2 * (n \div Abs(b.m)) + (IF n % Abs(b.m) = 0 THEN 0 ELSE 1)),
          a.e - b.e - sh - 1)

Div(a, b) ==
    IF IsNaNv(a) \/ IsNaNv(b) THEN NaN
    ELSE IF IsInf(a) THEN
        (IF IsInf(b) THEN NaN
         ELSE IF SignOf(a) * (IF b.m < 0 THEN 0 - 1 ELSE 1) > 0 THEN PosInf ELSE NegInf)
    ELSE IF IsInf(b) THEN Zero
    ELSE IF b.m = 0 THEN
        (IF a.m = 0 THEN NaN ELSE IF a.m > 0 THEN PosInf ELSE NegInf)
    ELSE IF a.m = 0 THEN Zero
    ELSE DivShifted(a, b, 2 * MantissaBits + 1, Abs(a.m) * Pow2(2 * MantissaBits + 1))

\* a < b of JavaScript: false when either side is NaN
Less(a, b) ==
    IF IsNaNv(a) \/ IsNaNv(b) THEN FALSE
    ELSE IF IsInf(a) THEN (a.m < 0 /\ ~(IsInf(b) /\ b.m < 0))
    ELSE IF IsInf(b) THEN b.m > 0
    ELSE IF SignOf(a) # SignOf(b) THEN SignOf(a) < SignOf(b)
    ELSE IF a.m = 0 THEN FALSE
    ELSE LET magLess(x, y) ==
                 IF Top(x) # Top(y) THEN Top(x) < Top(y)
                 ELSE LET e == Min2(x.e, y.e)
                      IN  Abs(x.m) * Pow2(x.e - e) < Abs(y.m) * Pow2(y.e - e)
         IN  IF a.m > 0 THEN magLess(a, b) ELSE magLess(b, a)

LessEq(a, b) == Less(a, b) \/ (a = b /\ ~IsNaNv(a))

\* Math.pow(b, n) for a non-negative integer n
RECURSIVE PowInt(_, _)
PowInt(b, n) == IF n = 0 THEN One ELSE IF n = 1 THEN b ELSE Mul(b, PowInt(b, n - 1))

\* ------------------------------------------------------------------------
\* Spatial interpolator (heatmap-renderer.tsx, idw)
\* ------------------------------------------------------------------------
IDW_POWER == 2
CELL_SIZE == 5

\* the literal 1e-8, rounded to the number format
EPSILON == Div(One, FromInt(100000000))

\* (x - pt.x) ** 2 + (y - pt.y) ** 2
DistSq(x, y, pt) ==
    Add(PowInt(Sub(x, pt.x), 2), PowInt(Sub(y, pt.y), 2))

\* 1 / Math.pow(dSq, pwr / 2), for the even powers the renderer uses
Weight(dSq, pwr) == Div(One, PowInt(dSq, pwr \div 2))

RECURSIVE idwLoop(_, _, _, _, _, _)

\* variant of the accumulation that sums the values without their weights
idwAccumulateUnweighted(acc, pt, w) ==
    [acc EXCEPT !.num = Add(acc.num, pt.value), !.den = Add(acc.den, w)]

\* num += pt.value * w; den += w
idwAccumulate(acc, pt, w) ==
    [acc EXCEPT !.num = Add(acc.num, Mul(pt.value, w)), !.den = Add(acc.den, w)]

\* variant of the loop body that does not stop at the first coinciding point
idwPointNoBreak(x, y, points, pwr, i, acc, pt, dSq, w) ==
    IF Less(dSq, EPSILON) THEN idwLoop(x, y, points, pwr, i + 1, [acc EXCEPT !.match = pt.value])
    ELSE IF dSq = Zero THEN idwLoop(x, y, points, pwr, i + 1, acc)
    ELSE IF ~IsFinite(w) THEN idwLoop(x, y, points, pwr, i + 1, acc)
    ELSE idwLoop(x, y, points, pwr, i + 1, idwAccumulate(acc, pt, w))

\* the body of the for-loop of idw for point i = pt, whose squared
\* distance is dSq and whose weight is w
idwPoint(x, y, points, pwr, i, acc, pt, dSq, w) ==
    IF Less(dSq, EPSILON) THEN [acc EXCEPT !.match = pt.value]
    ELSE IF dSq = Zero THEN idwLoop(x, y, points, pwr, i + 1, acc)
    ELSE IF ~IsFinite(w) THEN idwLoop(x, y, points, pwr, i + 1, acc)
    ELSE idwLoop(x, y, points, pwr, i + 1, idwAccumulate(acc, pt, w))

\* the for-loop of idw from point i on; acc = [num, den, match]
idwLoop(x, y, points, pwr, i, acc) ==
    IF i > Len(points) THEN acc
    ELSE idwPoint(x, y, points, pwr, i, acc, points[i],
                  DistSq(x, y, points[i]), Weight(DistSq(x, y, points[i]), pwr))

\* variant of the return statements without the guard on the weight sum
idwReturnNoDenGuard(acc) ==
    IF acc.match # Null THEN acc.match
    ELSE Div(acc.num, acc.den)

\* the return statements of idw
idwReturn(acc) ==
    IF acc.match # Null THEN acc.match
    ELSE IF acc.den = Zero \/ ~IsFinite(acc.den) THEN Null
    ELSE Div(acc.num, acc.den)

idw(x, y, points, pwr) ==
    idwReturn(idwLoop(x, y, points, pwr, 1, [num |-> Zero, den |-> Zero, match |-> Null]))

\* ------------------------------------------------------------------------
\* Region clipper (heatmap-renderer.tsx, renderOverlay: clip paths)
\* Strings that the code takes apart are sequences of one-character strings.
\* ------------------------------------------------------------------------
UpperCase == <<"A", "B", "C", "D", "E", "F", "G", "H", "I", "J", "K", "L", "M",
               "N", "O", "P", "Q", "R", "S", "T", "U", "V", "W", "X", "Y", "Z">>
LowerCase == <<"a", "b", "c", "d", "e", "f", "g", "h", "i", "j", "k", "l", "m",
               "n", "o", "p", "q", "r", "s", "t", "u", "v", "w", "x", "y", "z">>
Digits == <<"0", "1", "2", "3", "4", "5", "6", "7", "8", "9">>

LowerCaseOf ==
    [c \in {UpperCase[i] : i \in 1..Len(UpperCase)} |->
        LowerCase[CHOOSE i \in 1..Len(UpperCase) : UpperCase[i] = c]]

\* String.prototype.toLowerCase, on ASCII
ToLowerCase(str) ==
    [i \in 1..Len(str) |-> IF str[i] \in DOMAIN LowerCaseOf THEN LowerCaseOf[str[i]] ELSE str[i]]

\* \s, for the white space of ASCII text
IsSpace(c) == c \in {" ", "\t", "\n"}

\* [a-z0-9-]
SlugChars ==
    {LowerCase[i] : i \in 1..Len(LowerCase)} \cup {Digits[i] : i \in 1..Len(Digits)} \cup {"-"}

\* .replace(/\s+/g, '-')
RECURSIVE SpacesToHyphen(_)
SpacesToHyphen(str) ==
    IF str = <<>> THEN <<>>
    ELSE IF IsSpace(Head(str))
        THEN IF Len(str) > 1 /\ IsSpace(str[2])
                 THEN SpacesToHyphen(Tail(str))
                 ELSE <<"-">> \o SpacesToHyphen(Tail(str))
        ELSE <<Head(str)>> \o SpacesToHyphen(Tail(str))

\* .replace(/[^a-z0-9-]/g, '')
StripOther(str) == SelectSeq(str, LAMBDA c : c \in SlugChars)

\* .replace(/^-+|-+$/g, '')
RECURSIVE TrimLeft(_)
TrimLeft(str) ==
    IF str # <<>> /\ Head(str) = "-" THEN TrimLeft(Tail(str)) ELSE str

RECURSIVE TrimRight(_)
TrimRight(str) ==
    IF str # <<>> /\ str[Len(str)] = "-" THEN TrimRight(SubSeq(str, 1, Len(str) - 1)) ELSE str

TrimHyphens(str) == TrimRight(TrimLeft(str))

\* .replace(/-+/g, '-')
RECURSIVE CollapseHyphens(_)
CollapseHyphens(str) ==
    IF str = <<>> THEN <<>>
    ELSE IF Head(str) = "-" /\ Len(str) > 1 /\ str[2] = "-"
        THEN CollapseHyphens(Tail(str))
        ELSE <<Head(str)>> \o CollapseHyphens(Tail(str))

\* the slug without .replace(/^-+|-+$/g, '')
SlugifyNoTrim(rawLayer) ==
    CollapseHyphens(StripOther(SpacesToHyphen(ToLowerCase(rawLayer))))

Slugify(rawLayer) ==
    CollapseHyphens(TrimHyphens(StripOther(SpacesToHyphen(ToLowerCase(rawLayer)))))

\* String.prototype.includes
Includes(str, sub) ==
    \E i \in 0..(Len(str) - Len(sub)) : SubSeq(str, i + 1, i + Len(sub)) = sub

CLIP_PREFIX == <<"maplibreo-lake-clip-">>

\* `${index}` for the indices of a short feature list
IndexString(index) ==
    <<CASE index = 0 -> "0" [] index = 1 -> "1" [] index = 2 -> "2"
        [] index = 3 -> "3" [] OTHER -> "4">>

\* feature.properties?.layer || `feature-${index}`
RawLayerOrIndex(feature, index) ==
    IF feature.layer # <<>> THEN feature.layer
    ELSE <<"f", "e", "a", "t", "u", "r", "e", "-">> \o IndexString(index)

\* `maplibreo-lake-clip-${slug || index}`
ClipIdOf(slug, index) ==
    CLIP_PREFIX \o (IF slug # <<>> THEN slug ELSE IndexString(index))

\* clipIdToSlug: clipId.replace('maplibreo-lake-clip-', ''), '' for null
clipIdToSlug(clipId) ==
    IF clipId = <<>> THEN <<>>
    ELSE IF Len(clipId) >= 1 /\ Head(clipId) = CLIP_PREFIX[1] THEN Tail(clipId)
    ELSE clipId

LAYER_NA == <<"G", "S", "L", "4", "1", "9", "4", "P", "o", "l", "y", "N", "A">>
LAYER_SA == <<"G", "S", "L", "4", "1", "9", "4", "P", "o", "l", "y", "S", "A">>
POLYNA == <<"p", "o", "l", "y", "n", "a">>
POLYSA == <<"p", "o", "l", "y", "s", "a">>

\* ------------------------------------------------------------------------
\* Geo projector, rasterizer and overlay compositor (renderOverlay)
\* ------------------------------------------------------------------------
HEATMAP_RESOLUTION_WIDTH == MaxCols * CELL_SIZE
HEATMAP_RESOLUTION_HEIGHT == MaxRows * CELL_SIZE

NORTH_ARM_STATION_IDS == {"RD2", "SJ-1", "LVG4"}

\* armClipId === null
NoClip == <<>>

\* map.project(new LngLat(lng, lat)) under viewport vp: a linear map with
\* the screen y axis pointing down
Project(vp, lng, lat) ==
    [x |-> Add(Mul(lng, vp.scale), vp.panX),
     y |-> Sub(vp.panY, Mul(lat, vp.scale))]

\* new LngLat(lng, lat) throws for NaN and for a latitude outside [-90, 90]
LngLatThrows(lng, lat) ==
    \/ IsNaNv(lng) \/ IsNaNv(lat)
    \/ Less(FromInt(90), lat) \/ Less(lat, FromInt(0 - 90))

\* currentDataForTimepoint[station.id]
ValueOf(slice, id) == IF id \in DOMAIN slice THEN slice[id] ELSE Undefined

\* value !== undefined && typeof value === 'number' && !isNaN(value)
HasNumericValue(value) == value # Undefined /\ IsNumberType(value) /\ ~IsNaNv(value)

\* typeof c === 'number' && !isNaN(c)
IsValidCoord(c) == IsNumberType(c) /\ ~IsNaNv(c)

\* (d3 as any)[interpolatorName] || d3.interpolateBlues
KnownInterpolators == {"interpolateBlues", "interpolateGreens", "interpolateOrRd"}

InterpolatorOf(config) ==
    LET interpolatorName == IF config.interpolate # "" THEN config.interpolate
                            ELSE "interpolateBlues"
    IN  IF interpolatorName \in KnownInterpolators THEN interpolatorName
        ELSE "interpolateBlues"

Clamp01(t) == IF Less(t, Zero) THEN Zero ELSE IF Less(One, t) THEN One ELSE t

\* colorScale(value): the interpolator applied to the position of value in
\* the domain [range[0], range[1]]
ColorScale(config, range, value) ==
    [interpolate |-> InterpolatorOf(config),
     t |-> IF range[1] = range[2] THEN Zero
           ELSE Clamp01(Div(Sub(value, range[1]), Sub(range[2], range[1])))]

\* 'hsl(var(--muted))'
NO_DATA_FILL == [interpolate |-> "hsl(var(--muted))", t |-> Zero]

\* a canvas pixel nothing was drawn on
TRANSPARENT == [interpolate |-> "transparent", t |-> Zero]

\* the station loop that fills northScreenPoints (north = TRUE) or
\* southScreenPoints (north = FALSE)
SelectScreenPointsAll(stations, slice, vp, north) ==
    LET contributes(st) ==
            /\ HasNumericValue(ValueOf(slice, st.id))
            /\ IsValidCoord(st.longitude) /\ IsValidCoord(st.latitude)
            /\ ~LngLatThrows(st.longitude, st.latitude)
        used == SelectSeq(stations, contributes)
    IN  [i \in 1..Len(used) |->
            LET projected == Project(vp, used[i].longitude, used[i].latitude)
            IN  [x |-> projected.x, y |-> projected.y, value |-> ValueOf(slice, used[i].id)]]

\* the station loop with the region taken from the station's latitude
SelectScreenPointsByLatitude(stations, slice, vp, north) ==
    LET contributes(st) ==
            /\ HasNumericValue(ValueOf(slice, st.id))
            /\ IsValidCoord(st.longitude) /\ IsValidCoord(st.latitude)
            /\ ~LngLatThrows(st.longitude, st.latitude)
            /\ Less(Zero, st.latitude) = north
        used == SelectSeq(stations, contributes)
    IN  [i \in 1..Len(used) |->
            LET projected == Project(vp, used[i].longitude, used[i].latitude)
            IN  [x |-> projected.x, y |-> projected.y, value |-> ValueOf(slice, used[i].id)]]

SelectScreenPoints(stations, slice, vp, north) ==
    LET contributes(st) ==
            /\ HasNumericValue(ValueOf(slice, st.id))
            /\ IsValidCoord(st.longitude) /\ IsValidCoord(st.latitude)
            /\ ~LngLatThrows(st.longitude, st.latitude)
            /\ (st.id \in NORTH_ARM_STATION_IDS) = north
        used == SelectSeq(stations, contributes)
    IN  [i \in 1..Len(used) |->
            LET projected == Project(vp, used[i].longitude, used[i].latitude)
            IN  [x |-> projected.x, y |-> projected.y, value |-> ValueOf(slice, used[i].id)]]

\* the forEach over lakeData.features that assigns northArmClipId (north =
\* TRUE) or southArmClipId (north = FALSE): the clip id of the last feature
\* detected for the arm, NoClip if there is none
RECURSIVE ArmClipIdFrom(_, _, _, _)
ArmClipIdFrom(features, north, i, acc) ==
    IF i > Len(features) THEN acc
    ELSE LET rawLayer == RawLayerOrIndex(features[i], i - 1)
             slug == Slugify(rawLayer)
             clipId == ClipIdOf(slug, i - 1)
             isNorth == rawLayer = LAYER_NA \/ Includes(slug, POLYNA)
             isSouth == ~isNorth /\ (rawLayer = LAYER_SA \/ Includes(slug, POLYSA))
         IN  ArmClipIdFrom(features, north, i + 1,
                           IF (north /\ isNorth) \/ (~north /\ isSouth) THEN clipId ELSE acc)

\* the forEach with the test for the south region first
RECURSIVE ArmClipIdSouthFirstFrom(_, _, _, _)
ArmClipIdSouthFirstFrom(features, north, i, acc) ==
    IF i > Len(features) THEN acc
    ELSE LET rawLayer == RawLayerOrIndex(features[i], i - 1)
             slug == Slugify(rawLayer)
             clipId == ClipIdOf(slug, i - 1)
             isSouth == rawLayer = LAYER_SA \/ Includes(slug, POLYSA)
             isNorth == ~isSouth /\ (rawLayer = LAYER_NA \/ Includes(slug, POLYNA))
         IN  ArmClipIdSouthFirstFrom(features, north, i + 1,
                                     IF (north /\ isNorth) \/ (~north /\ isSouth)
                                         THEN clipId ELSE acc)

ArmClipIdSouthFirst(features, north) == ArmClipIdSouthFirstFrom(features, north, 1, NoClip)

ArmClipId(features, north) == ArmClipIdFrom(features, north, 1, NoClip)

\* d3.geoBounds(feature): [minLng, minLat, maxLng, maxLat]
GeoBounds(feature) == feature.bounds

\* the bounds of a geometry that has no coordinates
EmptyBounds == <<NaN, NaN, NaN, NaN>>

\* a path element without the d attribute
NoPath == <<>>

\* geoPathGenerator throws for the feature: the projection stream hands
\* each of its coordinates to new LngLat
GeoPathThrows(feature) ==
    /\ GeoBounds(feature) # EmptyBounds
    /\ \/ LngLatThrows(GeoBounds(feature)[1], GeoBounds(feature)[4])
       \/ LngLatThrows(GeoBounds(feature)[3], GeoBounds(feature)[2])

\* the path data geoPathGenerator produces for a feature: its outline in
\* screen coordinates
GeoPath(vp, feature) ==
    IF GeoBounds(feature) = EmptyBounds THEN NoPath
    ELSE <<Project(vp, GeoBounds(feature)[1], GeoBounds(feature)[4]),
           Project(vp, GeoBounds(feature)[3], GeoBounds(feature)[2])>>

\* the <clipPath> children of <defs>; an exception of geoPathGenerator is
\* caught and leaves the path without d
ClipPaths(features, vp) ==
    [i \in 1..Len(features) |->
        [id |-> ClipIdOf(Slugify(RawLayerOrIndex(features[i], i - 1)), i - 1),
         d |-> IF GeoPathThrows(features[i]) THEN NoPath ELSE GeoPath(vp, features[i])]]

\* index of the first feature whose outline cannot be drawn because
\* geoPathGenerator throws, 0 if there is none
FirstBadOutline(features) ==
    IF \A i \in 1..Len(features) : ~GeoPathThrows(features[i]) THEN 0
    ELSE CHOOSE i \in 1..Len(features) :
            /\ GeoPathThrows(features[i])
            /\ \A j \in 1..(i - 1) : ~GeoPathThrows(features[j])

\* the children of g.lake-outlines when the attr('d') call ends or throws
Outlines(features, vp, bad) ==
    [i \in 1..Len(features) |->
        [d |-> IF bad # 0 /\ i >= bad THEN NoPath ELSE GeoPath(vp, features[i])]]

\* lakeData.features.find(f => slug(f.properties?.layer || '') === currentArmSlug)
FindArmFeature(features, currentArmSlug) ==
    LET hits == {i \in 1..Len(features) : Slugify(features[i].layer) = currentArmSlug}
    IN  IF hits = {} THEN 0 ELSE CHOOSE i \in hits : \A j \in hits : i <= j

MinF(a, b) == IF Less(b, a) THEN b ELSE a

AbsF(a) == IF IsNum(a) /\ a.m < 0 THEN Neg(a) ELSE IF a = NegInf THEN PosInf ELSE a

GridCols(canvasResolutionWidth) == (canvasResolutionWidth + CELL_SIZE - 1) \div CELL_SIZE
GridRows(canvasResolutionHeight) == (canvasResolutionHeight + CELL_SIZE - 1) \div CELL_SIZE

\* (c + 0.5) * CELL_SIZE
CanvasPx(c) == Div(FromInt((2 * c + 1) * CELL_SIZE), FromInt(2))

\* screen position of the centre of cell c (column or row) of an image that
\* starts at imgScreen and is imgSize wide (high)
CellCentre(c, imgScreen, imgSize, canvasResolution) ==
    Add(imgScreen, Mul(Div(CanvasPx(c), FromInt(canvasResolution)), imgSize))

\* the image attributes x, y, width and height from the projected corners
\* of the arm feature's bounds
PlacementOf(topLeft, bottomRight) ==
    [x |-> MinF(topLeft.x, bottomRight.x),
     y |-> MinF(topLeft.y, bottomRight.y),
     width |-> AbsF(Sub(bottomRight.x, topLeft.x)),
     height |-> AbsF(Sub(bottomRight.y, topLeft.y))]

\* the placement of the image of the arm feature on the screen
ImagePlacement(vp, feature) ==
    PlacementOf(Project(vp, GeoBounds(feature)[1], GeoBounds(feature)[4]),
                Project(vp, GeoBounds(feature)[3], GeoBounds(feature)[2]))

\* the grid loop filling a cell without value with the no-data colour
CellColourNoData(interpolatedVal, config, range) ==
    IF interpolatedVal # Null /\ IsFinite(interpolatedVal)
        THEN ColorScale(config, range, interpolatedVal)
        ELSE NO_DATA_FILL

\* what the grid loop leaves in a cell for the value idw returned
CellColourAlways(interpolatedVal, config, range) ==
    ColorScale(config, range, interpolatedVal)

CellColour(interpolatedVal, config, range) ==
    IF interpolatedVal # Null /\ IsFinite(interpolatedVal)
        THEN ColorScale(config, range, interpolatedVal)
        ELSE TRANSPARENT

\* the grid loop of processArm: the canvas content
PaintCells(armPoints, place, w, h, config, range) ==
    [cell \in (0..(GridCols(w) - 1)) \X (0..(GridRows(h) - 1)) |->
        CellColour(idw(CellCentre(cell[1], place.x, place.width, w),
                       CellCentre(cell[2], place.y, place.height, h),
                       armPoints, IDW_POWER),
                   config, range)]

\* processArm once the arm feature is found: the bounds check, the
\* placement, the grid loop and the image element
DrawArm(gImages, armPoints, armClipId, w, h, in, bounds, place) ==
    IF \E k \in 1..4 : ~IsFinite(bounds[k]) THEN gImages
    ELSE IF LessEq(place.width, Zero) \/ LessEq(place.height, Zero) THEN gImages
    ELSE Append(gImages,
                [x |-> place.x, y |-> place.y,
                 width |-> place.width, height |-> place.height,
                 clipPath |-> armClipId,
                 href |-> PaintCells(armPoints, place, w, h,
                                     in.currentConfig, in.currentRange)])

\* processArm from the lookup of the arm feature on: armFeature is its
\* index in lakeData.features, 0 if there is none
ProcessArmFeature(gImages, armPoints, armClipId, w, h, in, armFeature) ==
    IF armFeature = 0 THEN gImages
    ELSE DrawArm(gImages, armPoints, armClipId, w, h, in,
                 GeoBounds(in.lakeData[armFeature]),
                 ImagePlacement(in.viewport, in.lakeData[armFeature]))

\* map.project throws for a corner of the feature's finite bounds
PlacementThrows(feature) ==
    /\ \A k \in 1..4 : IsFinite(GeoBounds(feature)[k])
    /\ \/ LngLatThrows(GeoBounds(feature)[1], GeoBounds(feature)[4])
       \/ LngLatThrows(GeoBounds(feature)[3], GeoBounds(feature)[2])

\* processArm throws instead of returning
ArmThrowsAt(in, armFeature) ==
    armFeature # 0 /\ PlacementThrows(in.lakeData[armFeature])

ArmThrows(armPoints, armClipId, in) ==
    /\ armClipId # NoClip
    /\ ~(Len(armPoints) = 0 /\ Len(in.stations) > 0)
    /\ ArmThrowsAt(in, FindArmFeature(in.lakeData, clipIdToSlug(armClipId)))

\* processArm: the children of the image layer after the call
processArm(gImages, armPoints, armClipId, w, h, in) ==
    IF armClipId = NoClip THEN gImages
    ELSE IF Len(armPoints) = 0 /\ Len(in.stations) > 0 THEN gImages
    ELSE ProcessArmFeature(gImages, armPoints, armClipId, w, h, in,
                           FindArmFeature(in.lakeData, clipIdToSlug(armClipId)))

\* value.toFixed(digits) of a finite number: the nearest multiple of
\* 10^-digits, the larger one on a tie, as [negative, scaled, digits]
ToFixed(value, digits) ==
    LET mag == Abs(value.m) * (10 ^ digits)
        scaled == IF value.e >= 0 THEN mag * Pow2(value.e)
                  ELSE (2 * mag + Pow2(0 - value.e)) \div (2 * Pow2(0 - value.e))
    IN  [negative |-> value.m < 0, scaled |-> scaled, digits |-> digits]

DEFAULT_STATION_LABEL_OFFSET == [x |-> 0, y |-> 15]

StationLabelOffset(id) == IF id = "SJ-1" THEN [x |-> 14, y |-> 0 - 10]
                          ELSE DEFAULT_STATION_LABEL_OFFSET

\* the element one iteration of the marker loop appends for a station
StationMarkerZeroIsNoData(station, in) ==
    LET projected == Project(in.viewport, station.longitude, station.latitude)
        value == ValueOf(in.currentDataForTimepoint, station.id)
        hasData == HasNumericValue(value) /\ value # Zero
    IN  [station |-> station.id,
         x |-> projected.x, y |-> projected.y,
         fill |-> IF hasData THEN ColorScale(in.currentConfig, in.currentRange, value)
                  ELSE NO_DATA_FILL,
         title |-> IF hasData
                   THEN <<station.name, ": ", ToFixed(value, in.currentConfig.precision),
                          " ", in.currentConfig.unit>>
                   ELSE <<station.name, ": No data">>,
         label |-> IF hasData
                   THEN <<station.name, " (", ToFixed(value, in.currentConfig.precision), ")">>
                   ELSE <<station.name>>,
         offset |-> StationLabelOffset(station.id)]

StationMarker(station, in) ==
    LET projected == Project(in.viewport, station.longitude, station.latitude)
        value == ValueOf(in.currentDataForTimepoint, station.id)
        hasData == HasNumericValue(value)
    IN  [station |-> station.id,
         x |-> projected.x, y |-> projected.y,
         fill |-> IF hasData THEN ColorScale(in.currentConfig, in.currentRange, value)
                  ELSE NO_DATA_FILL,
         title |-> IF hasData
                   THEN <<station.name, ": ", ToFixed(value, in.currentConfig.precision),
                          " ", in.currentConfig.unit>>
                   ELSE <<station.name, ": No data">>,
         label |-> IF hasData
                   THEN <<station.name, " (", ToFixed(value, in.currentConfig.precision), ")">>
                   ELSE <<station.name>>,
         offset |-> StationLabelOffset(station.id)]

\* typeof station.longitude === 'number' && typeof station.latitude === 'number'
HasCoords(station) == IsNumberType(station.longitude) /\ IsNumberType(station.latitude)

\* index of the first station whose marker cannot be placed because
\* new LngLat throws, 0 if there is none
FirstThrowing(stations) ==
    LET bad == {i \in 1..Len(stations) :
                    HasCoords(stations[i])
                    /\ LngLatThrows(stations[i].longitude, stations[i].latitude)}
    IN  IF bad = {} THEN 0 ELSE CHOOSE i \in bad : \A j \in bad : i <= j

\* the children of g.stations when the marker loop ends or throws
StationMarkers(in) ==
    LET stop == FirstThrowing(in.stations)
        upto == IF stop = 0 THEN Len(in.stations) ELSE stop - 1
        drawn == SelectSeq(SubSeq(in.stations, 1, upto), HasCoords)
    IN  [i \in 1..Len(drawn) |-> StationMarker(drawn[i], in)]

\* the text element the last statement of renderOverlay appends, if any
NoDataMessage(in, northScreenPoints, southScreenPoints) ==
    IF /\ Len(northScreenPoints) = 0 /\ Len(southScreenPoints) = 0
       /\ Len(in.stations) > 0
       /\ Cardinality(DOMAIN in.currentDataForTimepoint) > 0
    THEN <<[tag |-> "text",
            children |-> <<[x |-> in.viewport.width \div 2, y |-> in.viewport.height \div 2,
                            text |-> <<"No station data for ", in.currentConfig.label,
                                       " to generate heatmap.">>]>>]>>
    ELSE IF Len(in.stations) = 0
    THEN <<[tag |-> "text",
            children |-> <<[x |-> in.viewport.width \div 2, y |-> in.viewport.height \div 2,
                            text |-> <<"No station locations available.">>]>>]>>
    ELSE <<>>

\* the overlay before the layer is created and after it is removed
NoLayer == [svg |-> FALSE, images |-> <<>>, content |-> <<>>]

\* the svg the setup effect appends: two empty groups
EmptyLayer == [svg |-> TRUE, images |-> <<>>, content |-> <<>>]

\* what a render pass did, for the properties: not part of the program
NoPass == [ran |-> "none", northScreenPoints |-> <<>>, southScreenPoints |-> <<>>,
           northArmClipId |-> NoClip, southArmClipId |-> NoClip]

\* the statement of the pass an exception leaves renderOverlay from:
\* processArm for the north or the south region, the outlines, the marker
\* loop, or none
ThrowsAt(in, northArmClipId, southArmClipId, northScreenPoints, southScreenPoints) ==
    IF ArmThrows(northScreenPoints, northArmClipId, in) THEN "north"
    ELSE IF ArmThrows(southScreenPoints, southArmClipId, in) THEN "south"
    ELSE IF FirstBadOutline(in.lakeData) # 0 THEN "outlines"
    ELSE IF FirstThrowing(in.stations) # 0 THEN "stations"
    ELSE "none"

\* the body of renderOverlay after the guard: what it adds to the groups
\* gImages and gContent up to the statement `at` that throws, and what the
\* pass did
PassResult(in, gImages, gContent, northArmClipId, southArmClipId, northScreenPoints, southScreenPoints, at) ==
    [layer |->
        [svg |-> TRUE,
         images |->
             IF at = "north" THEN gImages
             ELSE IF at = "south"
             THEN processArm(gImages, northScreenPoints, northArmClipId,
                             HEATMAP_RESOLUTION_WIDTH, HEATMAP_RESOLUTION_HEIGHT, in)
             ELSE processArm(processArm(gImages, northScreenPoints, northArmClipId,
                                        HEATMAP_RESOLUTION_WIDTH, HEATMAP_RESOLUTION_HEIGHT, in),
                             southScreenPoints, southArmClipId,
                             HEATMAP_RESOLUTION_WIDTH, HEATMAP_RESOLUTION_HEIGHT, in),
         content |->
             gContent
             \o <<[tag |-> "defs", children |-> ClipPaths(in.lakeData, in.viewport)]>>
             \o (IF at \in {"north", "south"} THEN <<>>
                 ELSE <<[tag |-> "lake-outlines",
                         children |-> Outlines(in.lakeData, in.viewport,
                                               FirstBadOutline(in.lakeData))]>>)
             \o (IF at \in {"north", "south", "outlines"} THEN <<>>
                 ELSE <<[tag |-> "stations", children |-> StationMarkers(in)]>>)
             \o (IF at # "none" THEN <<>>
                 ELSE NoDataMessage(in, northScreenPoints, southScreenPoints))],
     pass |-> [ran |-> IF at # "none" THEN "threw" ELSE "full",
               northScreenPoints |-> northScreenPoints,
               southScreenPoints |-> southScreenPoints,
               northArmClipId |-> northArmClipId,
               southArmClipId |-> southArmClipId]]

\* renderOverlay after the guard, with the clip ids and the point lists
\* its first loops computed: the overlay it leaves and what the pass did
RenderPassNoClear(in, layer, northArmClipId, southArmClipId, northScreenPoints, southScreenPoints) ==
    PassResult(in, layer.images, layer.content, northArmClipId, southArmClipId,
               northScreenPoints, southScreenPoints,
               ThrowsAt(in, northArmClipId, southArmClipId,
                        northScreenPoints, southScreenPoints))

RenderPass(in, layer, northArmClipId, southArmClipId, northScreenPoints, southScreenPoints) ==
    PassResult(in, <<>>, <<>>, northArmClipId, southArmClipId,
               northScreenPoints, southScreenPoints,
               ThrowsAt(in, northArmClipId, southArmClipId,
                        northScreenPoints, southScreenPoints))

\* renderOverlay on the overlay `layer` with the props and map state `in`:
\* the overlay it leaves and what the pass did
renderOverlayNoStyleGuard(in, layer) ==
    IF ~layer.svg THEN [layer |-> layer, pass |-> [NoPass EXCEPT !.ran = "skipped"]]
    ELSE RenderPass(in, layer,
                    ArmClipId(in.lakeData, TRUE), ArmClipId(in.lakeData, FALSE),
                    SelectScreenPoints(in.stations, in.currentDataForTimepoint,
                                       in.viewport, TRUE),
                    SelectScreenPoints(in.stations, in.currentDataForTimepoint,
                                       in.viewport, FALSE))

\* the guard of renderOverlay leaving the groups as they are
renderOverlayKeepsFrame(in, layer) ==
    IF ~layer.svg THEN [layer |-> layer, pass |-> [NoPass EXCEPT !.ran = "skipped"]]
    ELSE IF ~in.styleLoaded
    THEN [layer |-> layer, pass |-> [NoPass EXCEPT !.ran = "cleared"]]
    ELSE RenderPass(in, layer,
                    ArmClipId(in.lakeData, TRUE), ArmClipId(in.lakeData, FALSE),
                    SelectScreenPoints(in.stations, in.currentDataForTimepoint,
                                       in.viewport, TRUE),
                    SelectScreenPoints(in.stations, in.currentDataForTimepoint,
                                       in.viewport, FALSE))

renderOverlay(in, layer) ==
    IF ~layer.svg THEN [layer |-> layer, pass |-> [NoPass EXCEPT !.ran = "skipped"]]
    ELSE IF ~in.styleLoaded
    THEN [layer |-> EmptyLayer, pass |-> [NoPass EXCEPT !.ran = "cleared"]]
    ELSE RenderPass(in, layer,
                    ArmClipId(in.lakeData, TRUE), ArmClipId(in.lakeData, FALSE),
                    SelectScreenPoints(in.stations, in.currentDataForTimepoint,
                                       in.viewport, TRUE),
                    SelectScreenPoints(in.stations, in.currentDataForTimepoint,
                                       in.viewport, FALSE))

\* ------------------------------------------------------------------------
\* State
\* ------------------------------------------------------------------------
VARIABLES
    idwX, idwY,      \* target of one idw call
    idwPoints,       \* its point list
    idwResult,       \* its return value
    idwPc            \* "ready" before the call, "done" after

idwVars == <<idwX, idwY, idwPoints, idwResult, idwPc>>

VARIABLES
    variant,          \* which GreatSaltLakeHeatmap is mounted: "main" is
                      \* great-salt-lake-heatmap.tsx, "p006" and "p005" the
                      \* two other versions of the component
    controls,         \* which TimeControls is mounted: "slider" is
                      \* time-controls.tsx, "range" the <input type=range> one
    timePoints,       \* ordered time point keys
    currentTimeIndex,
    playing,
    isLoading,
    playTimerRef,     \* playTimerRef.current: an interval id, or NoTimer
    intervals,        \* live setInterval timers: [id, len], len being the
                      \* timePoints.length their callback closed over
    timerDeps,        \* dependencies the timer effect last ran with
    indexDeps,        \* dependencies the initial-index effect last ran with
    lastEvent         \* the handler or callback that ran last: [name, arg]

playVars == <<variant, controls, timePoints, currentTimeIndex, playing, isLoading,
              playTimerRef, intervals, timerDeps, indexDeps, lastEvent>>

VARIABLES
    lakeData,                 \* props of HeatmapRenderer: lakeData.features,
    stations,                 \* the station list,
    currentDataForTimepoint,  \* the data slice: station id -> value,
    currentRange,             \* the colour domain
    currentConfig,            \* and the variable configuration
    viewport,                 \* the map's transform and canvas size
    styleLoaded,              \* map.isStyleLoaded()
    mounted,                  \* HeatmapRenderer is mounted
    overlay,                  \* the svg layer: image group and content group
    styledataOnce,            \* props captured by the pending
                              \* map.once('styledata', renderOverlay) callbacks
    lastPass                  \* what the last call of renderOverlay did

renderVars == <<lakeData, stations, currentDataForTimepoint, currentRange, currentConfig,
                viewport, styleLoaded, mounted, overlay, styledataOnce, lastPass>>

VARIABLES
    allDataKeys,       \* Object.keys(allData) of the loaded site data
    selectedVariable,
    selectDeps         \* [availableVariables, selectedVariable] the correcting
                       \* effect last ran with

selectVars == <<allDataKeys, selectedVariable, selectDeps>>

VARIABLES
    selfMounted,       \* the self-loading GreatSaltLakeHeatmap is mounted
    retries,
    usingMockData,
    loadState,         \* its state the load writes: lakeData and the site
                       \* data (the call that delivered them, 0 for the
                       \* initial value), error and isLoading
    runs,              \* the runs of the loading effect, oldest first:
                       \* [attempt, isMounted, pc, currentErrors, outcome]
    calls              \* calls of loadSiteAndTempData since the mount

loadVars == <<selfMounted, retries, usingMockData, loadState, runs, calls>>

vars == <<idwVars, playVars, renderVars, selectVars, loadVars>>

\* ------------------------------------------------------------------------
\* Loading in the self-loading GreatSaltLakeHeatmap
\* ------------------------------------------------------------------------
MAX_RETRIES == 3

\* effect runs kept in `runs`, over all mounts
MaxRuns == 6

\* useState initial values
InitialLoaded == [lakeData |-> 0, siteData |-> 0, error |-> <<>>, isLoading |-> TRUE]

\* what loadGeoJsonData and loadSiteAndTempData resolve to: both catch
\* their own failures and report them in the result
GeoJsonResults == {[error |-> e] : e \in BOOLEAN}
SiteDataResults == {[error |-> e, usingMockData |-> m] : e \in BOOLEAN, m \in BOOLEAN}

\* the guard on isMounted after an await
StillMountedIgnored(run) == TRUE

StillMounted(run) == run.isMounted

\* the retry condition
ShouldRetry(dataResult, attempt) == dataResult.error /\ attempt < MAX_RETRIES - 1

\* the cleanup of the effect: isMounted = false in the run's closure
CleanedUp(rs) == [i \in 1..Len(rs) |-> [rs[i] EXCEPT !.isMounted = FALSE]]

\* the body of the effect: loadInitialData(retries) up to its first await
StartRun(rs, attempt) ==
    Append(rs, [attempt |-> attempt, isMounted |-> TRUE, pc |-> "geo",
                currentErrors |-> <<>>, outcome |-> "pending"])

\* the effect re-runs when one of its dependencies changed
RerunEffect(rs, deps, nextDeps) ==
    IF deps = nextDeps THEN rs ELSE StartRun(CleanedUp(rs), nextDeps[1])

LoadIdle ==
    /\ selfMounted = FALSE
    /\ retries = 0
    /\ usingMockData = FALSE
    /\ loadState = InitialLoaded
    /\ runs = <<>>
    /\ calls = 0

UnchangedByLoad ==
    /\ UNCHANGED idwVars
    /\ UNCHANGED playVars
    /\ UNCHANGED renderVars
    /\ UNCHANGED selectVars

\* the page mounts the component: the effect runs
MountSelf ==
    /\ ~selfMounted
    /\ Len(runs) + MAX_RETRIES + 1 <= MaxRuns
    /\ selfMounted' = TRUE
    /\ retries' = 0
    /\ usingMockData' = FALSE
    /\ loadState' = InitialLoaded
    /\ runs' = StartRun(runs, 0)
    /\ calls' = 0
    /\ UnchangedByLoad

\* the page unmounts the component: the cleanup of the effect
UnmountSelf ==
    /\ selfMounted
    /\ selfMounted' = FALSE
    /\ runs' = CleanedUp(runs)
    /\ UNCHANGED <<retries, usingMockData, loadState, calls>>
    /\ UnchangedByLoad

\* loadGeoJsonData of run i resolves: the continuation up to the second await
GeoJsonResolves(i, geoJsonResult) ==
    /\ runs[i].pc = "geo"
    /\ IF ~StillMounted(runs[i])
       THEN /\ runs' = [runs EXCEPT ![i].pc = "done", ![i].outcome = "dropped"]
            /\ UNCHANGED <<loadState, calls>>
       ELSE /\ loadState' = [loadState EXCEPT !.lakeData = i]
            /\ runs' = [runs EXCEPT ![i].pc = "site",
                                     ![i].currentErrors =
                                         IF geoJsonResult.error THEN <<"geo">> ELSE <<>>]
            /\ calls' = calls + 1
    /\ UNCHANGED <<selfMounted, retries, usingMockData>>
    /\ UnchangedByLoad

\* loadSiteAndTempData of run i resolves: the rest of loadInitialData with
\* its finally block, then the effect if retries or usingMockData changed
SiteDataResolves(i, dataResult) ==
    /\ runs[i].pc = "site"
    /\ IF ~StillMounted(runs[i])
       THEN /\ runs' = [runs EXCEPT ![i].pc = "done", ![i].outcome = "dropped"]
            /\ UNCHANGED <<retries, usingMockData, loadState>>
       ELSE IF ShouldRetry(dataResult, runs[i].attempt)
       THEN /\ retries' = retries + 1
            /\ usingMockData' = usingMockData
            /\ loadState' = [loadState EXCEPT !.error = Append(runs[i].currentErrors, "site"),
                                         !.isLoading = TRUE]
            /\ runs' = RerunEffect([runs EXCEPT ![i].pc = "done", ![i].outcome = "retried"],
                                   <<retries, usingMockData>>, <<retries', usingMockData'>>)
       ELSE /\ retries' = retries
            /\ usingMockData' = (usingMockData \/ dataResult.usingMockData)
            /\ runs' = RerunEffect([runs EXCEPT ![i].pc = "done", ![i].outcome = "applied"],
                                   <<retries, usingMockData>>, <<retries', usingMockData'>>)
            /\ loadState' = [loadState EXCEPT
                              !.siteData = i,
                              !.error = IF dataResult.error
                                        THEN Append(runs[i].currentErrors, "site")
                                        ELSE runs[i].currentErrors,
                              !.isLoading = Len(runs') > Len(runs)]
    /\ UNCHANGED <<selfMounted, calls>>
    /\ UnchangedByLoad

\* ------------------------------------------------------------------------
\* Variable selection (GreatSaltLakeHeatmap, HeatmapSelector)
\* ------------------------------------------------------------------------
\* the keys of VARIABLE_CONFIGS
VARIABLE_CONFIG_KEYS == {"density", "salinity", "temperature"}

\* keys the loaded data can hold, one of them without a configuration
DataKeys == {"density", "salinity", "temperature", "ph"}

\* Object.keys(allData).filter(...), ['density'] if nothing is left
AvailableVariables(keys) ==
    IF Len(SelectSeq(keys, LAMBDA key : key \in VARIABLE_CONFIG_KEYS
                                          /\ (key = "density" \/ key = "salinity"))) > 0
        THEN SelectSeq(keys, LAMBDA key : key \in VARIABLE_CONFIG_KEYS
                                            /\ (key = "density" \/ key = "salinity"))
        ELSE <<"density">>

availableVariables == AvailableVariables(allDataKeys)

SeqIncludes(seq, x) == \E i \in 1..Len(seq) : seq[i] = x

\* the effect that leaves the selection as it is
SelectionEffectKeeps(available, selected) == selected

\* the correcting effect: the value of selectedVariable after it
SelectionEffect(available, selected) ==
    IF Len(available) > 0 /\ ~SeqIncludes(available, selected)
        THEN available[1]
        ELSE selected

SelectEffectPending == selectDeps # <<availableVariables, selectedVariable>>

\* the selection before any data is loaded
SelectIdle ==
    /\ allDataKeys = <<>>
    /\ selectedVariable = "density"
    /\ selectDeps = <<<<"density">>, "density">>

\* key lists without repetition
KeyLists == {keys \in UNION {[1..n -> DataKeys] : n \in 0..Cardinality(DataKeys)} :
                \A i, j \in 1..Len(keys) : keys[i] = keys[j] => i = j}

\* the site data query resolves: allData holds the keys `keys`
LoadAllData(keys) ==
    /\ ~SelectEffectPending
    /\ keys # allDataKeys
    /\ allDataKeys' = keys
    /\ isLoading' = FALSE
    /\ UNCHANGED <<selectedVariable, selectDeps>>
    /\ UNCHANGED <<variant, controls, timePoints, currentTimeIndex, playing,
                   playTimerRef, intervals, timerDeps, indexDeps, lastEvent>>
    /\ UNCHANGED idwVars
    /\ UNCHANGED renderVars
    /\ UNCHANGED loadVars

\* HeatmapSelector: onValueChange with one of the items it offers
SelectVariable(value) ==
    /\ ~SelectEffectPending
    /\ ~(isLoading \/ Len(availableVariables) <= 1)
    /\ SeqIncludes(availableVariables, value)
    /\ value # selectedVariable
    /\ selectedVariable' = value
    /\ UNCHANGED <<allDataKeys, selectDeps>>
    /\ UNCHANGED playVars
    /\ UNCHANGED idwVars
    /\ UNCHANGED renderVars
    /\ UNCHANGED loadVars

\* React runs the correcting effect, whose dependencies changed
RunSelectionEffect ==
    /\ SelectEffectPending
    /\ selectedVariable' = SelectionEffect(availableVariables, selectedVariable)
    /\ selectDeps' = <<availableVariables, selectedVariable>>
    /\ UNCHANGED allDataKeys
    /\ UNCHANGED playVars
    /\ UNCHANGED idwVars
    /\ UNCHANGED renderVars
    /\ UNCHANGED loadVars


\* the model map and the props the page starts with
ViewportA == [scale |-> FromInt(4), panX |-> Zero, panY |-> FromInt(8),
              width |-> 8, height |-> 8]
ViewportB == [scale |-> FromInt(8), panX |-> One, panY |-> FromInt(16),
              width |-> 16, height |-> 16]

FeatureNA == [layer |-> LAYER_NA, bounds |-> <<Zero, One, FromInt(2), FromInt(2)>>]
FeatureSA == [layer |-> LAYER_SA, bounds |-> <<Zero, Zero, FromInt(2), One>>]

ConfigDensity == [key |-> "density", label |-> "Density (Lab)", unit |-> "g/cm3",
                  precision |-> 3, interpolate |-> "interpolateBlues"]

EmptySlice == [id \in {} |-> Zero]

\* the renderer while another part of the program is exercised
RenderIdle ==
    /\ lakeData = <<FeatureNA, FeatureSA>>
    /\ stations = <<>>
    /\ currentDataForTimepoint = EmptySlice
    /\ currentRange = <<Zero, FromInt(4)>>
    /\ currentConfig = ConfigDensity
    /\ viewport = ViewportA
    /\ styleLoaded = TRUE
    /\ mounted = FALSE
    /\ overlay = NoLayer
    /\ styledataOnce = <<>>
    /\ lastPass = NoPass

\* ------------------------------------------------------------------------
\* The interpolator as a function: inputs drawn from bounded sets
\* ------------------------------------------------------------------------
Tiny == Norm(1, 0 - 14)
Two == FromInt(2)
Three == FromInt(3)
\* a value whose products with the weights are not exact
Frac == Norm(19, 0 - 4)

IdwTargetXs == {Zero, One, Two}
IdwTargetYs == {Zero, One}
IdwPointXs == {Zero, Tiny, One, NaN, PosInf}
IdwPointYs == {Zero, Two}
IdwValues == {Zero, Frac, Three}

IdwPointSet == [x : IdwPointXs, y : IdwPointYs, value : IdwValues]

RECURSIVE SeqsUpTo(_, _)
SeqsUpTo(S, n) ==
    IF n = 0 THEN {<<>>}
    ELSE LET shorter == SeqsUpTo(S, n - 1)
         IN  shorter \cup {Append(q, el) : q \in {r \in shorter : Len(r) = n - 1}, el \in S}

\* no idw call of its own while another part of the program is exercised
IdwIdle ==
    /\ idwX = Zero /\ idwY = Zero /\ idwPoints = <<>>
    /\ idwResult = Null /\ idwPc = "idle"

\* the playback state while the interpolator alone is exercised
PlayIdle ==
    /\ variant = "main" /\ controls = "slider"
    /\ timePoints = <<>> /\ currentTimeIndex = 0
    /\ playing = FALSE /\ isLoading = TRUE
    /\ playTimerRef = 0 /\ intervals = {}
    /\ timerDeps = <<FALSE, 0>> /\ indexDeps = <<<<>>, 0>>
    /\ lastEvent = [name |-> "mount", arg |-> 0]

InitIdw ==
    /\ LoadIdle
    /\ SelectIdle
    /\ PlayIdle
    /\ RenderIdle
    /\ idwX \in IdwTargetXs
    /\ idwY \in IdwTargetYs
    /\ idwPoints \in SeqsUpTo(IdwPointSet, MaxPoints)
    /\ idwResult = Null
    /\ idwPc = "ready"

CallIdw ==
    /\ idwPc = "ready"
    /\ idwResult' = idw(idwX, idwY, idwPoints, IDW_POWER)
    /\ idwPc' = "done"
    /\ UNCHANGED <<idwX, idwY, idwPoints>>
    /\ UNCHANGED playVars
    /\ UNCHANGED renderVars
    /\ UNCHANGED selectVars
    /\ UNCHANGED loadVars

NextIdw == CallIdw

SpecIdw == InitIdw /\ [][NextIdw]_vars

\* ------------------------------------------------------------------------
\* Properties of the interpolator
\* ------------------------------------------------------------------------
IdwIdx == 1..Len(idwPoints)

\* point i lies within epsilon of the target
Coincides(i) == Less(DistSq(idwX, idwY, idwPoints[i]), EPSILON)

FirstCoinciding == CHOOSE i \in IdwIdx : Coincides(i) /\ \A j \in 1..(i - 1) : ~Coincides(j)

\* point i takes part in the weighted sum with a non-zero weight
Contributes(i) ==
    LET w == Weight(DistSq(idwX, idwY, idwPoints[i]), IDW_POWER)
    IN  IsFinite(w) /\ w # Zero

\* C3: if some point lies within squared distance 1e-8 of the target, idw
\* returns exactly the value of the first such point in list order.
C3_ExactMatch ==
    (idwPc = "done" /\ \E i \in IdwIdx : Coincides(i))
        => idwResult = idwPoints[FirstCoinciding].value

\* two coinciding points of different value
C3_Witness ==
    /\ idwPc = "done"
    /\ Len(idwPoints) = 2
    /\ Coincides(1) /\ Coincides(2)
    /\ idwPoints[1].value # idwPoints[2].value
    /\ idwPoints[1].x # idwPoints[2].x
    /\ idwResult = idwPoints[1].value

\* C4: idw of an empty point list is null, for every target.
C4_EmptyIsNull ==
    (idwPc = "done" /\ idwPoints = <<>>) => idwResult = Null

C4_Witness ==
    idwPc = "done" /\ idwPoints = <<>> /\ idwX = Two /\ idwY = One /\ idwResult = Null

TwoEqual == Len(idwPoints) = 2 /\ idwPoints[1].value = idwPoints[2].value

\* |r - v| <= k * 2^(-MantissaBits) * |v| for finite r and v
WithinRounding(r, v, k) ==
    LET e == Min2(r.e, v.e)
        rm == r.m * Pow2(r.e - e)
        vm == v.m * Pow2(v.e - e)
    IN  Abs(rm - vm) * Pow2(MantissaBits) <= k * Abs(vm)

\* C5 as stated: two points of equal value v make idw return v at any target.
C5_Original ==
    (idwPc = "done" /\ TwoEqual) => idwResult = idwPoints[1].value

\* C5 amended: for two points of equal finite value v, idw returns v exactly
\* when a point coincides with the target, null when no point contributes a
\* finite non-zero weight, and otherwise the floating-point weighted average,
\* which is v up to rounding error.
C5_EqualValues ==
    (idwPc = "done" /\ TwoEqual /\ IsFinite(idwPoints[1].value)) =>
        LET v == idwPoints[1].value
        IN  IF \E i \in IdwIdx : Coincides(i) THEN idwResult = v
            ELSE IF \A i \in IdwIdx : ~Contributes(i) THEN idwResult = Null
            ELSE IsFinite(idwResult) /\ WithinRounding(idwResult, v, 5)

\* the weighted average of two equal values that is not the value itself
C5_Witness ==
    /\ idwPc = "done" /\ TwoEqual
    /\ \A i \in IdwIdx : ~Coincides(i) /\ Contributes(i)
    /\ IsFinite(idwResult)
    /\ idwResult # idwPoints[1].value

\* the values of the points
IdwValuesOf == {idwPoints[i].value : i \in IdwIdx}

MinValue == CHOOSE v \in IdwValuesOf : \A u \in IdwValuesOf : LessEq(v, u)
MaxValue == CHOOSE v \in IdwValuesOf : \A u \in IdwValuesOf : LessEq(u, v)

InValueRange(r) == LessEq(MinValue, r) /\ LessEq(r, MaxValue)

\* C30 as stated: a non-null result lies between the minimum and the
\* maximum of the values of the points.
C30_Original ==
    (idwPc = "done" /\ idwPoints # <<>> /\ idwResult # Null) => InValueRange(idwResult)

\* C30 amended: a non-null result of idw on a non-empty list is the value
\* of a point when a point coincides with the target, and otherwise the
\* floating-point weighted average, which lies between the minimum and
\* the maximum of the values up to rounding error: it can exceed the
\* maximum or fall below the minimum by a few units in the last place.
C30_Bounded ==
    (idwPc = "done" /\ idwPoints # <<>> /\ idwResult # Null) =>
        IF \E i \in IdwIdx : Coincides(i) THEN idwResult \in IdwValuesOf
        ELSE /\ IsFinite(idwResult)
             /\ \/ InValueRange(idwResult)
                \/ WithinRounding(idwResult, MinValue, 5)
                \/ WithinRounding(idwResult, MaxValue, 5)

\* a weighted average of two different values strictly between them
C30_Witness ==
    /\ idwPc = "done" /\ Len(idwPoints) = 2
    /\ \A i \in IdwIdx : ~Coincides(i) /\ Contributes(i)
    /\ idwPoints[1].value # idwPoints[2].value
    /\ IsFinite(idwResult)
    /\ idwResult # MinValue /\ idwResult # MaxValue
    /\ InValueRange(idwResult)

\* ------------------------------------------------------------------------
\* Time selection and playback (GreatSaltLakeHeatmap, TimeControls)
\* ------------------------------------------------------------------------
Variants == {"main", "p006", "p005"}
Controls == {"slider", "range"}

\* playTimerRef.current === null
NoTimer == 0

\* the time point keys of a data set with n time points
TP(n) == [i \in 1..n |-> i]

\* the state updater the interval callback hands to setCurrentTimeIndex;
\* len is the timePoints.length the callback closed over
TickUpdater(v, prevIndex, len) ==
    LET nextIndex == prevIndex + 1
    IN  IF nextIndex >= len
            THEN IF v = "main"
                     THEN [index |-> 0, stop |-> FALSE]
                     ELSE [index |-> (IF len > 0 THEN len - 1 ELSE 0), stop |-> TRUE]
            ELSE [index |-> nextIndex, stop |-> FALSE]

ClearInterval(ivs, id) == {t \in ivs : t.id # id}

FreshTimerId(ivs, ref) ==
    LET used == {t.id : t \in ivs} \cup {ref}
    IN  CHOOSE i \in 1..(Cardinality(used) + 1) :
            i \notin used /\ \A j \in 1..(i - 1) : j \in used

\* the animation timer effect without the test of timePoints.length
TimerEffectIgnoresLength(ivs, ref, play, len) ==
    IF play
        THEN [intervals |-> (IF ref # NoTimer THEN ClearInterval(ivs, ref) ELSE ivs)
                                \cup {[id |-> FreshTimerId(ivs, ref), len |-> len]},
              ref |-> FreshTimerId(ivs, ref)]
    ELSE IF ref # NoTimer
        THEN [intervals |-> ClearInterval(ivs, ref), ref |-> NoTimer]
    ELSE [intervals |-> ivs, ref |-> ref]

\* the animation timer effect with a cleanup that clears nothing
TimerEffectNoCleanup(ivs, ref, play, len) ==
    IF play /\ len > 0
        THEN LET id == FreshTimerId(ivs, ref)
             IN  [intervals |-> ivs \cup {[id |-> id, len |-> len]}, ref |-> id]
    ELSE IF ref # NoTimer
        THEN [intervals |-> ClearInterval(ivs, ref), ref |-> NoTimer]
    ELSE [intervals |-> ivs, ref |-> ref]

\* one run of the animation timer effect: the cleanup of the previous run,
\* then the body
TimerEffect(ivs, ref, play, len) ==
    LET cleaned == IF ref # NoTimer THEN ClearInterval(ivs, ref) ELSE ivs
    IN  IF play /\ len > 0
            THEN LET id == FreshTimerId(cleaned, ref)
                 IN  [intervals |-> cleaned \cup {[id |-> id, len |-> len]}, ref |-> id]
        ELSE IF ref # NoTimer
            THEN [intervals |-> ClearInterval(cleaned, ref), ref |-> NoTimer]
        ELSE [intervals |-> cleaned, ref |-> ref]

TimerEffectPending == timerDeps # <<playing, Len(timePoints)>>

\* the effect of the "p006" component that moves index 0 to the latest point
IndexEffectPending == variant = "p006" /\ indexDeps # <<timePoints, currentTimeIndex>>

EffectsPending == TimerEffectPending \/ IndexEffectPending

\* playPauseButtonDisabled, sliderDisabled
ControlsDisabled == isLoading \/ Len(timePoints) <= 1

\* values the slider can report: min..max
SliderValues == 0..(IF Len(timePoints) > 0 THEN Len(timePoints) - 1 ELSE 0)

InitPlay ==
    /\ LoadIdle
    /\ SelectIdle
    /\ variant \in Variants
    /\ controls \in Controls
    /\ timePoints = <<>> /\ currentTimeIndex = 0
    /\ playing = FALSE /\ isLoading = TRUE
    /\ playTimerRef = NoTimer /\ intervals = {}
    /\ timerDeps = <<FALSE, 0>> /\ indexDeps = <<<<>>, 0>>
    /\ lastEvent = [name |-> "mount", arg |-> 0]
    /\ IdwIdle
    /\ RenderIdle

\* React runs the passive effects whose dependencies changed
RunEffects ==
    /\ EffectsPending
    /\ LET te == IF TimerEffectPending
                     THEN TimerEffect(intervals, playTimerRef, playing, Len(timePoints))
                     ELSE [intervals |-> intervals, ref |-> playTimerRef]
       IN  /\ intervals' = te.intervals
           /\ playTimerRef' = te.ref
    /\ timerDeps' = <<playing, Len(timePoints)>>
    /\ indexDeps' = IF variant = "p006" THEN <<timePoints, currentTimeIndex>> ELSE indexDeps
    /\ currentTimeIndex' =
           IF IndexEffectPending /\ Len(timePoints) > 0 /\ currentTimeIndex = 0
               THEN Len(timePoints) - 1
               ELSE currentTimeIndex
    /\ UNCHANGED <<variant, controls, timePoints, playing, isLoading>>
    /\ lastEvent' = [name |-> "effects", arg |-> 0]
    /\ UNCHANGED idwVars
    /\ UNCHANGED renderVars
    /\ UNCHANGED selectVars
    /\ UNCHANGED loadVars

\* the interval callback of timer t fires
Tick(t) ==
    /\ ~EffectsPending
    /\ t \in intervals
    /\ LET u == TickUpdater(variant, currentTimeIndex, t.len)
       IN  /\ currentTimeIndex' = u.index
           /\ playing' = IF u.stop THEN FALSE ELSE playing
    /\ UNCHANGED <<variant, controls, timePoints, isLoading, playTimerRef, intervals,
                   timerDeps, indexDeps>>
    /\ lastEvent' = [name |-> "tick", arg |-> t.id]
    /\ UNCHANGED idwVars
    /\ UNCHANGED renderVars
    /\ UNCHANGED selectVars
    /\ UNCHANGED loadVars

TogglePlay ==
    /\ ~EffectsPending
    /\ ~ControlsDisabled
    /\ playing' = ~playing
    /\ UNCHANGED <<variant, controls, timePoints, currentTimeIndex, isLoading,
                   playTimerRef, intervals, timerDeps, indexDeps>>
    /\ lastEvent' = [name |-> "togglePlay", arg |-> 0]
    /\ UNCHANGED idwVars
    /\ UNCHANGED renderVars
    /\ UNCHANGED selectVars
    /\ UNCHANGED loadVars

\* body shared by handleSliderValueChange and handleSliderChange
SliderChangeBody(name, newIndex) ==
    /\ IF newIndex >= 0 /\ newIndex < Len(timePoints)
           THEN /\ currentTimeIndex' = newIndex
                /\ playing' = IF playing THEN FALSE ELSE playing
           ELSE UNCHANGED <<currentTimeIndex, playing>>
    /\ UNCHANGED <<variant, controls, timePoints, isLoading, playTimerRef, intervals,
                   timerDeps, indexDeps>>
    /\ lastEvent' = [name |-> name, arg |-> newIndex]
    /\ UNCHANGED idwVars
    /\ UNCHANGED renderVars
    /\ UNCHANGED selectVars
    /\ UNCHANGED loadVars

\* time-controls.tsx: onValueChange of the Slider
HandleSliderValueChange(newIndex) ==
    /\ ~EffectsPending
    /\ controls = "slider"
    /\ ~ControlsDisabled
    /\ newIndex \in SliderValues
    /\ SliderChangeBody("handleSliderValueChange", newIndex)

\* <input type=range>: onChange, the user moved the thumb to another value
HandleSliderChange(newIndex) ==
    /\ ~EffectsPending
    /\ controls = "range"
    /\ ~ControlsDisabled
    /\ newIndex \in SliderValues
    /\ newIndex # currentTimeIndex
    /\ SliderChangeBody("handleSliderChange", newIndex)

\* <input type=range>: onMouseUp / onTouchEnd, with the value the input shows
HandleSliderFinish(newIndex) ==
    /\ ~EffectsPending
    /\ controls = "range"
    /\ ~ControlsDisabled
    /\ newIndex \in SliderValues
    /\ newIndex = currentTimeIndex \/ currentTimeIndex \notin SliderValues
    /\ IF newIndex >= 0 /\ newIndex < Len(timePoints)
           THEN currentTimeIndex' = newIndex
           ELSE UNCHANGED currentTimeIndex
    /\ UNCHANGED <<variant, controls, timePoints, playing, isLoading, playTimerRef,
                   intervals, timerDeps, indexDeps>>
    /\ lastEvent' = [name |-> "handleSliderFinish", arg |-> newIndex]
    /\ UNCHANGED idwVars
    /\ UNCHANGED renderVars
    /\ UNCHANGED selectVars
    /\ UNCHANGED loadVars

\* a result of loadSiteAndTempData with n time points reaches the component
LoadData(n) ==
    /\ ~EffectsPending
    /\ variant = "p005" => isLoading
    /\ timePoints' = TP(n)
    /\ isLoading' = FALSE
    /\ currentTimeIndex' =
           IF variant = "p005" THEN (IF n > 0 THEN n - 1 ELSE 0) ELSE currentTimeIndex
    /\ UNCHANGED <<variant, controls, playing, playTimerRef, intervals, timerDeps, indexDeps>>
    /\ lastEvent' = [name |-> "loadData", arg |-> n]
    /\ UNCHANGED idwVars
    /\ UNCHANGED renderVars
    /\ UNCHANGED selectVars
    /\ UNCHANGED loadVars

\* the component unmounts: the cleanup of the timer effect runs, the state of
\* the instance is dropped and a later mount starts from the initial state;
\* the timers of the window outlive the instance
UnmountHeatmap ==
    /\ ~EffectsPending
    /\ intervals' = IF playTimerRef # NoTimer
                        THEN ClearInterval(intervals, playTimerRef)
                        ELSE intervals
    /\ timePoints' = <<>> /\ currentTimeIndex' = 0
    /\ playing' = FALSE /\ isLoading' = TRUE
    /\ playTimerRef' = NoTimer
    /\ timerDeps' = <<FALSE, 0>> /\ indexDeps' = <<<<>>, 0>>
    /\ UNCHANGED <<variant, controls>>
    /\ lastEvent' = [name |-> "unmount", arg |-> playTimerRef]
    /\ UNCHANGED idwVars
    /\ UNCHANGED renderVars
    /\ UNCHANGED selectVars
    /\ UNCHANGED loadVars

NextPlay ==
    \/ UnmountHeatmap
    \/ RunEffects
    \/ \E t \in intervals : Tick(t)
    \/ TogglePlay
    \/ \E i \in 0..MaxTimePoints : HandleSliderValueChange(i)
    \/ \E i \in 0..MaxTimePoints : HandleSliderChange(i)
    \/ \E i \in 0..MaxTimePoints : HandleSliderFinish(i)
    \/ \E n \in 0..MaxTimePoints : LoadData(n)

SpecPlay == InitPlay /\ [][NextPlay]_vars

\* ------------------------------------------------------------------------
\* Properties of playback
\* ------------------------------------------------------------------------
TickStep == \E t \in intervals : Tick(t)

AtLastIndex == Len(timePoints) > 0 /\ currentTimeIndex = Len(timePoints) - 1

\* C1: a timer tick at the last index while playing stops playback and
\* leaves the index at the last index; no tick wraps the index back to 0.
C1_StopAtEnd ==
    [][TickStep =>
          /\ (playing /\ AtLastIndex) => (playing' = FALSE /\ currentTimeIndex' = currentTimeIndex)
          /\ (currentTimeIndex > 0 /\ Len(timePoints) > 1) => currentTimeIndex' # 0]_vars

SliderInvoked(i) ==
    HandleSliderValueChange(i) \/ HandleSliderChange(i) \/ HandleSliderFinish(i)

\* C2: a slider handler invoked with a valid index i while playing sets
\* currentTimeIndex to i and playing to false.
C2_ScrubCancelsPlayback ==
    [][\A i \in 0..MaxTimePoints :
          (SliderInvoked(i) /\ playing /\ i < Len(timePoints))
              => (currentTimeIndex' = i /\ playing' = FALSE)]_vars

\* playback is stopped and React has run the effects of the stop, or the
\* component has just unmounted
PlaybackStopped == ~EffectsPending /\ (~playing \/ lastEvent.name = "unmount")

\* C16: once playback is stopped (paused, scrubbed, stopped at the end) and
\* the timer effect has run, or the component has unmounted, no interval of
\* the component is left, so no timer tick can change currentTimeIndex.
C16_TimerCancelled == PlaybackStopped => (intervals = {} /\ playTimerRef = NoTimer)

\* the component unmounted while its timer was running, and the timer is gone
C16_Witness ==
    /\ lastEvent.name = "unmount" /\ lastEvent.arg # NoTimer
    /\ intervals = {}

\* C17: whenever timePoints is non-empty, 0 <= currentTimeIndex <
\* timePoints.length, so the current time point is an element of timePoints.
C17_IndexInRange ==
    Len(timePoints) > 0 => (0 <= currentTimeIndex /\ currentTimeIndex < Len(timePoints))

\* C24: at most one playback interval exists in every state, and once the
\* timer effect has run for the current playing and timePoints.length, no
\* interval exists while playing is false or timePoints is empty.
C24_OneInterval ==
    /\ Cardinality(intervals) <= 1
    /\ (~TimerEffectPending /\ (~playing \/ Len(timePoints) = 0)) => intervals = {}

\* playing with the interval that replaced an earlier one, created for the
\* current number of time points
C24_Witness ==
    /\ playing /\ ~TimerEffectPending
    /\ \E t \in intervals : t.id > 1 /\ t.len = Len(timePoints) /\ t.id = playTimerRef
    /\ Cardinality(intervals) = 1

ScrubEvents == {"handleSliderValueChange", "handleSliderChange", "handleSliderFinish"}

\* the step is a scrub to a valid index
ScrubStep == lastEvent'.name \in ScrubEvents /\ lastEvent'.arg < Len(timePoints)

\* the step follows a scrub to a valid index and is no scrub, tick or unmount
AfterScrubStep ==
    /\ lastEvent.name \in ScrubEvents
    /\ lastEvent.arg < Len(timePoints)
    /\ lastEvent'.name \notin ScrubEvents \cup {"tick", "unmount"}

\* C23: in the versions of the component that start at the latest time
\* point, a scrub to a valid index i (0 included) leaves the index at i, and
\* the step after the scrub leaves it there unless it is another scrub, a
\* timer tick or the unmount.
C23_ScrubSticks ==
    [][(variant \in {"p005", "p006"} /\ ScrubStep => currentTimeIndex' = lastEvent'.arg)
       /\ (variant \in {"p005", "p006"} /\ AfterScrubStep => currentTimeIndex' = lastEvent.arg)]_vars

\* ------------------------------------------------------------------------
\* The overlay renderer as a component: props, map events, effects
\* ------------------------------------------------------------------------
StationRD2 == [id |-> "RD2", name |-> "Rozel", longitude |-> Norm(1, 0 - 1),
               latitude |-> Norm(3, 0 - 1)]
StationAS2 == [id |-> "AS2", name |-> "Antelope", longitude |-> Norm(1, 0 - 1),
               latitude |-> Norm(1, 0 - 1)]
StationFB2 == [id |-> "FB2", name |-> "Farmington", longitude |-> One,
               latitude |-> Norm(1, 0 - 2)]
\* a station record with no coordinates and one with a coordinate that is
\* not finite
StationRD2NoCoords == [StationRD2 EXCEPT !.longitude = Null, !.latitude = Null]
StationAS2Far == [StationAS2 EXCEPT !.longitude = PosInf]

StationLists == {<<>>,
                 <<StationAS2, StationFB2>>,
                 <<StationRD2, StationAS2>>,
                 <<StationRD2, StationAS2, StationFB2>>,
                 <<StationRD2, StationAS2Far>>,
                 <<StationRD2NoCoords, StationAS2>>}

LakeDatas == {<<FeatureNA, FeatureSA>>, <<FeatureSA>>}

Viewports == {ViewportA, ViewportB}

SliceIds == {"RD2", "AS2", "FB2"}

SliceValues(id) ==
    IF id = "RD2" THEN {Frac, NaN}
    ELSE IF id = "AS2" THEN {Zero, Three}
    ELSE {Frac}

\* the props and the map state a call of renderOverlay reads
Props == [lakeData |-> lakeData, stations |-> stations,
          currentDataForTimepoint |-> currentDataForTimepoint,
          currentRange |-> currentRange, currentConfig |-> currentConfig]

Inputs(props, vp, loaded) ==
    [lakeData |-> props.lakeData, stations |-> props.stations,
     currentDataForTimepoint |-> props.currentDataForTimepoint,
     currentRange |-> props.currentRange, currentConfig |-> props.currentConfig,
     viewport |-> vp, styleLoaded |-> loaded]

InitRender ==
    /\ LoadIdle
    /\ SelectIdle
    /\ PlayIdle
    /\ IdwIdle
    /\ RenderIdle

\* the cleanup and the body of the setup effect, then the data-change
\* effect, in the render with the props `in` (r: the overlay and pass the
\* two calls of renderOverlay leave when the style is loaded)
CommitEffectsOnMountOnly(props, r) ==
    /\ mounted' = TRUE
    /\ IF styleLoaded
       THEN /\ overlay' = IF mounted THEN overlay ELSE r.layer
            /\ lastPass' = IF mounted THEN lastPass ELSE r.pass
            /\ styledataOnce' = styledataOnce
       ELSE /\ overlay' = EmptyLayer
            /\ lastPass' = NoPass
            /\ styledataOnce' = Append(styledataOnce, props)

CommitEffects(props, r) ==
    /\ mounted' = TRUE
    /\ IF styleLoaded
       THEN /\ overlay' = r.layer
            /\ lastPass' = r.pass
            /\ styledataOnce' = styledataOnce
       ELSE /\ overlay' = EmptyLayer
            /\ lastPass' = NoPass
            /\ styledataOnce' = Append(styledataOnce, props)

RenderTwice(in) == renderOverlay(in, renderOverlay(in, EmptyLayer).layer)

RunRenderEffects(props) ==
    CommitEffects(props, RenderTwice(Inputs(props, viewport, styleLoaded)))

\* the data slices that differ from the current one in the value for one
\* id or lack one of its ids
ChangedSlices ==
    UNION {{[k \in (DOMAIN currentDataForTimepoint) \cup {id} |->
                IF k = id THEN value ELSE currentDataForTimepoint[k]] :
                   value \in SliceValues(id)} : id \in SliceIds}
    \cup {[k \in (DOMAIN currentDataForTimepoint) \ {id} |-> currentDataForTimepoint[k]] :
            id \in SliceIds}

\* the props of a render of the page that differ from the current ones in
\* the data slice, the station list or the lake polygons
ChangedProps ==
    ({[Props EXCEPT !.currentDataForTimepoint = slice] : slice \in ChangedSlices}
     \cup {[Props EXCEPT !.stations = list] : list \in StationLists}
     \cup {[Props EXCEPT !.lakeData = features] : features \in LakeDatas})
    \ {Props}

\* a pending once-callback can be added
OnceRoom == styleLoaded \/ Len(styledataOnce) < MaxOnce

\* the page mounts HeatmapRenderer (next = Props) or renders it with other
\* props: the effects run
Render(next) ==
    /\ OnceRoom
    /\ lakeData' = next.lakeData
    /\ stations' = next.stations
    /\ currentDataForTimepoint' = next.currentDataForTimepoint
    /\ currentRange' = next.currentRange
    /\ currentConfig' = next.currentConfig
    /\ RunRenderEffects(next)
    /\ UNCHANGED <<viewport, styleLoaded>>
    /\ UNCHANGED idwVars
    /\ UNCHANGED playVars
    /\ UNCHANGED selectVars
    /\ UNCHANGED loadVars

Mount == ~mounted /\ Render(Props)

PropsChange == mounted /\ \E next \in ChangedProps : Render(next)

\* the map fires move, zoom or resize: mapMoveHandler
SetPass(r) == overlay' = r.layer /\ lastPass' = r.pass

MapEvent(vp) ==
    /\ viewport' = vp
    /\ IF mounted
       THEN SetPass(renderOverlay(Inputs(Props, vp, styleLoaded), overlay))
       ELSE UNCHANGED <<overlay, lastPass>>
    /\ UNCHANGED <<lakeData, stations, currentDataForTimepoint, currentRange,
                   currentConfig, styleLoaded, mounted, styledataOnce>>
    /\ UNCHANGED idwVars
    /\ UNCHANGED playVars
    /\ UNCHANGED selectVars
    /\ UNCHANGED loadVars

\* the style starts loading again: isStyleLoaded() turns false
StyleUnloads ==
    /\ styleLoaded
    /\ styleLoaded' = FALSE
    /\ UNCHANGED <<lakeData, stations, currentDataForTimepoint, currentRange,
                   currentConfig, viewport, mounted, overlay, styledataOnce, lastPass>>
    /\ UNCHANGED idwVars
    /\ UNCHANGED playVars
    /\ UNCHANGED selectVars
    /\ UNCHANGED loadVars

\* the overlay after the pending once-callbacks ran in the order they were
\* registered, each with the props it captured
RECURSIVE RunOnceLoaded(_, _, _, _)
RunOnceLoaded(callbacks, vp, loaded, r) ==
    IF callbacks = <<>> THEN r
    ELSE RunOnceLoaded(Tail(callbacks), vp, loaded,
                       renderOverlay(Inputs(Head(callbacks), vp, loaded), r.layer))

RunOnce(callbacks, vp, r) == RunOnceLoaded(callbacks, vp, TRUE, r)

\* the style finishes loading: the map fires styledata
StyleData ==
    /\ ~styleLoaded
    /\ styleLoaded' = TRUE
    /\ SetPass(RunOnce(styledataOnce, viewport, [layer |-> overlay, pass |-> lastPass]))
    /\ styledataOnce' = <<>>
    /\ UNCHANGED <<lakeData, stations, currentDataForTimepoint, currentRange,
                   currentConfig, viewport, mounted>>
    /\ UNCHANGED idwVars
    /\ UNCHANGED playVars
    /\ UNCHANGED selectVars
    /\ UNCHANGED loadVars

NextRender ==
    \/ Mount
    \/ PropsChange
    \/ \E vp \in Viewports : MapEvent(vp)
    \/ StyleUnloads
    \/ StyleData

SpecRender == InitRender /\ [][NextRender]_vars

\* the layer holds the result of a complete pass
Rendered == mounted /\ lastPass.ran = "full"

\* ------------------------------------------------------------------------
\* Properties of the overlay renderer
\* ------------------------------------------------------------------------
Cells == (0..(GridCols(HEATMAP_RESOLUTION_WIDTH) - 1))
             \X (0..(GridRows(HEATMAP_RESOLUTION_HEIGHT) - 1))

Blank == [cell \in Cells |-> TRANSPARENT]

\* what the images clipped to clipId show: the canvas of the first one, a
\* blank canvas if there is none
RegionBitmap(images, clipId) ==
    LET hits == {i \in 1..Len(images) : images[i].clipPath = clipId}
    IN  IF clipId = NoClip \/ hits = {} THEN Blank
        ELSE images[CHOOSE i \in hits : \A j \in hits : i <= j].href

CurrentInputs == Inputs(Props, viewport, styleLoaded)

\* what a complete pass reads in the current state
PassInputs == Inputs(Props, viewport, TRUE)

IsNorthId(id) == id \in NORTH_ARM_STATION_IDS

\* the inputs without the stations assigned to the south (north = TRUE) or
\* to the north (north = FALSE), and without their values
OnlyArm(in, north) ==
    LET keep(st) == IsNorthId(st.id) = north
        keys == {id \in DOMAIN in.currentDataForTimepoint : IsNorthId(id) = north}
    IN  [in EXCEPT !.stations = SelectSeq(in.stations, keep),
                   !.currentDataForTimepoint =
                        [id \in keys |-> in.currentDataForTimepoint[id]]]

\* the image layer when the south region is processed before the north
SouthFirst ==
    processArm(processArm(<<>>, lastPass.southScreenPoints, lastPass.southArmClipId,
                          HEATMAP_RESOLUTION_WIDTH, HEATMAP_RESOLUTION_HEIGHT, PassInputs),
               lastPass.northScreenPoints, lastPass.northArmClipId,
               HEATMAP_RESOLUTION_WIDTH, HEATMAP_RESOLUTION_HEIGHT, PassInputs)

\* C6: after a complete pass the bitmap of the north region is the one the
\* pass produces from the north-assigned stations and their values alone,
\* whatever south-assigned stations and values are present, and likewise
\* the south bitmap is the one produced from the south-assigned stations
\* alone; processing the south region before the north gives the same two
\* bitmaps.
C6_RegionIndependence ==
    Rendered =>
        /\ RegionBitmap(overlay.images, lastPass.northArmClipId)
              = RegionBitmap(renderOverlay(OnlyArm(PassInputs, TRUE), EmptyLayer).layer.images,
                             lastPass.northArmClipId)
        /\ RegionBitmap(overlay.images, lastPass.southArmClipId)
              = RegionBitmap(renderOverlay(OnlyArm(PassInputs, FALSE), EmptyLayer).layer.images,
                             lastPass.southArmClipId)
        /\ \A clipId \in {lastPass.northArmClipId, lastPass.southArmClipId} :
              RegionBitmap(SouthFirst, clipId) = RegionBitmap(overlay.images, clipId)

HasPainted(bitmap) == \E cell \in DOMAIN bitmap : bitmap[cell] # TRANSPARENT

\* both regions painted from their own stations, with different values
C6_Witness ==
    /\ Rendered
    /\ Len(lastPass.northScreenPoints) > 0
    /\ Len(lastPass.southScreenPoints) > 1
    /\ HasPainted(RegionBitmap(overlay.images, lastPass.northArmClipId))
    /\ HasPainted(RegionBitmap(overlay.images, lastPass.southArmClipId))
    /\ RegionBitmap(overlay.images, lastPass.northArmClipId)
          # RegionBitmap(overlay.images, lastPass.southArmClipId)

\* C7: after a complete pass, running renderOverlay again with the same
\* props, the same viewport and the style still loaded leaves the image
\* layer and the content layer (clip paths, outlines, markers, message) as
\* they are.
C7_Idempotent ==
    (Rendered /\ styleLoaded) => renderOverlay(CurrentInputs, overlay).layer = overlay

ContentTags == {overlay.content[i].tag : i \in 1..Len(overlay.content)}

MarkersOf(layer) ==
    LET hits == {i \in 1..Len(layer.content) : layer.content[i].tag = "stations"}
    IN  IF hits = {} THEN <<>> ELSE layer.content[CHOOSE i \in hits : TRUE].children

\* an overlay with a painted bitmap, outlines and markers, rendered twice
C7_Witness ==
    /\ Rendered /\ styleLoaded
    /\ \E i \in 1..Len(overlay.images) : HasPainted(overlay.images[i].href)
    /\ "lake-outlines" \in ContentTags
    /\ Len(MarkersOf(overlay)) > 1

\* the points of the region an image belongs to
PointsOfImage(img) ==
    IF img.clipPath = lastPass.northArmClipId THEN lastPass.northScreenPoints
    ELSE lastPass.southScreenPoints

CentreX(img, cell) == CellCentre(cell[1], img.x, img.width, HEATMAP_RESOLUTION_WIDTH)
CentreY(img, cell) == CellCentre(cell[2], img.y, img.height, HEATMAP_RESOLUTION_HEIGHT)

\* no point lies on the target and every point's weight is not finite or
\* zero: nothing is added to the weight sum
NoWeight(x, y, points) ==
    \A i \in 1..Len(points) :
        LET dSq == DistSq(x, y, points[i])
            w == Weight(dSq, IDW_POWER)
        IN  ~Less(dSq, EPSILON) /\ (~IsFinite(w) \/ w = Zero)

\* C8: in every image of a complete pass a cell carries a colour exactly
\* when idw at its centre, over the points of the image's region, is a
\* finite number; when no point lies on the centre and no point adds a
\* weight, idw is null and the cell carries no colour.
C8_PaintedIffFinite ==
    Rendered =>
        \A i \in 1..Len(overlay.images) : \A cell \in Cells :
            LET img == overlay.images[i]
                x == CentreX(img, cell)
                y == CentreY(img, cell)
                points == PointsOfImage(img)
                v == idw(x, y, points, IDW_POWER)
            IN  /\ (img.href[cell] # TRANSPARENT) <=> (v # Null /\ IsFinite(v))
                /\ NoWeight(x, y, points) => (v = Null /\ img.href[cell] = TRANSPARENT)

\* one image with a painted cell, and one whose region has a point but no
\* weight at any cell
C8_Witness ==
    /\ Rendered
    /\ \E i \in 1..Len(overlay.images) : HasPainted(overlay.images[i].href)
    /\ \E i \in 1..Len(overlay.images) :
          /\ Len(PointsOfImage(overlay.images[i])) > 0
          /\ \A cell \in Cells :
                /\ NoWeight(CentreX(overlay.images[i], cell), CentreY(overlay.images[i], cell),
                            PointsOfImage(overlay.images[i]))
                /\ overlay.images[i].href[cell] = TRANSPARENT

\* the data slice holds a number for id
SliceHasNumber(id) ==
    /\ id \in DOMAIN currentDataForTimepoint
    /\ currentDataForTimepoint[id].k \in {"num", "Inf"}

MarkersFor(id) == {i \in 1..Len(MarkersOf(overlay)) : MarkersOf(overlay)[i].station = id}

\* C9: after a complete pass every station with coordinates has one
\* marker; the marker has the no-data fill and the title 'name: No data'
\* exactly when the slice holds no number for the station's id; a station
\* whose value is 0 has a colour-scale fill and a DataPoint of value 0 at
\* the marker's position in the list of its region.
C9_NoDataMarker ==
    Rendered =>
        \A s \in 1..Len(stations) :
            HasCoords(stations[s]) =>
                /\ Cardinality(MarkersFor(stations[s].id)) = 1
                /\ \A i \in MarkersFor(stations[s].id) :
                      LET mk == MarkersOf(overlay)[i]
                          pts == IF IsNorthId(stations[s].id) THEN lastPass.northScreenPoints
                                 ELSE lastPass.southScreenPoints
                      IN  /\ (mk.fill = NO_DATA_FILL) <=> ~SliceHasNumber(stations[s].id)
                          /\ (mk.title = <<stations[s].name, ": No data">>)
                                <=> ~SliceHasNumber(stations[s].id)
                          /\ ValueOf(currentDataForTimepoint, stations[s].id) = Zero =>
                                /\ mk.fill.interpolate \in KnownInterpolators
                                /\ \E p \in 1..Len(pts) :
                                      pts[p] = [x |-> mk.x, y |-> mk.y, value |-> Zero]

\* markers of a station with value 0, one with a NaN value and one absent
\* from the slice
C9_Witness ==
    /\ Rendered
    /\ \E s \in 1..Len(stations) :
          HasCoords(stations[s]) /\ ValueOf(currentDataForTimepoint, stations[s].id) = Zero
    /\ \E s \in 1..Len(stations) :
          HasCoords(stations[s]) /\ ValueOf(currentDataForTimepoint, stations[s].id) = NaN
    /\ \E s \in 1..Len(stations) :
          HasCoords(stations[s]) /\ stations[s].id \notin DOMAIN currentDataForTimepoint

HasNoDataMessage ==
    \E i \in 1..Len(overlay.content) :
        /\ overlay.content[i].tag = "text"
        /\ overlay.content[i].children[1].x = viewport.width \div 2
        /\ overlay.content[i].children[1].y = viewport.height \div 2
        /\ overlay.content[i].children[1].text[1] = "No station data for "

\* C10: after a complete pass with a non-empty station list and no
\* contributing point in either region, the overlay holds the centred
\* no-data message and no image, whatever the data slice.
C10_NoDataMessage ==
    (/\ Rendered
     /\ Len(stations) > 0
     /\ Len(lastPass.northScreenPoints) = 0
     /\ Len(lastPass.southScreenPoints) = 0)
        => (HasNoDataMessage /\ overlay.images = <<>>)

\* ------------------------------------------------------------------------
\* The overlay renderer under the map's events: the style loads and
\* unloads on its own, styledata fires at any time
\* ------------------------------------------------------------------------
ConfigSalinity == [key |-> "salinity", label |-> "Salinity (EOS)", unit |-> "g/L",
                   precision |-> 1, interpolate |-> "interpolateGreens"]

\* the props of the renders of the page: one reference set and sets that
\* differ from it in the data slice, the colour range, the variable
\* configuration, the station list or the lake polygons
BaseProps ==
    [lakeData |-> <<FeatureNA, FeatureSA>>,
     stations |-> <<StationRD2, StationAS2>>,
     currentDataForTimepoint |-> [id \in {"RD2", "AS2"} |-> IF id = "RD2" THEN Frac ELSE Three],
     currentRange |-> <<Zero, FromInt(4)>>,
     currentConfig |-> ConfigDensity]

EventProps ==
    {BaseProps,
     [BaseProps EXCEPT !.currentDataForTimepoint = [id \in {"RD2", "AS2"} |-> One]],
     [BaseProps EXCEPT !.currentRange = <<Zero, FromInt(8)>>],
     [BaseProps EXCEPT !.currentConfig = ConfigSalinity],
     [BaseProps EXCEPT !.stations = <<StationAS2, StationFB2>>],
     [BaseProps EXCEPT !.lakeData = <<FeatureSA>>]}

InitEvents ==
    /\ LoadIdle
    /\ SelectIdle
    /\ PlayIdle
    /\ IdwIdle
    /\ lakeData = BaseProps.lakeData
    /\ stations = BaseProps.stations
    /\ currentDataForTimepoint = BaseProps.currentDataForTimepoint
    /\ currentRange = BaseProps.currentRange
    /\ currentConfig = BaseProps.currentConfig
    /\ viewport = ViewportA
    /\ styleLoaded \in BOOLEAN
    /\ mounted = FALSE
    /\ overlay = NoLayer
    /\ styledataOnce = <<>>
    /\ lastPass = NoPass

\* the page renders HeatmapRenderer with other props, drawn from domain
PropsChangeIn(domain) == mounted /\ \E next \in domain \ {Props} : Render(next)

PropsChangeEvents == PropsChangeIn(EventProps)

\* the page stops rendering HeatmapRenderer: the cleanup of the setup
\* effect; a pending once-callback stays registered
Unmount ==
    /\ mounted
    /\ mounted' = FALSE
    /\ overlay' = NoLayer
    /\ lastPass' = NoPass
    /\ UNCHANGED <<lakeData, stations, currentDataForTimepoint, currentRange,
                   currentConfig, viewport, styleLoaded, styledataOnce>>
    /\ UNCHANGED idwVars
    /\ UNCHANGED playVars
    /\ UNCHANGED selectVars
    /\ UNCHANGED loadVars

\* the sources finish loading: isStyleLoaded() turns true, no styledata
StyleLoads ==
    /\ ~styleLoaded
    /\ styleLoaded' = TRUE
    /\ UNCHANGED <<lakeData, stations, currentDataForTimepoint, currentRange,
                   currentConfig, viewport, mounted, overlay, styledataOnce, lastPass>>
    /\ UNCHANGED idwVars
    /\ UNCHANGED playVars
    /\ UNCHANGED selectVars
    /\ UNCHANGED loadVars

\* the map fires styledata: the pending once-callbacks run, each with the
\* props it captured, and are gone
StyleDataEvent ==
    /\ styledataOnce # <<>>
    /\ SetPass(RunOnceLoaded(styledataOnce, viewport, styleLoaded,
                             [layer |-> overlay, pass |-> lastPass]))
    /\ styledataOnce' = <<>>
    /\ UNCHANGED <<lakeData, stations, currentDataForTimepoint, currentRange,
                   currentConfig, viewport, styleLoaded, mounted>>
    /\ UNCHANGED idwVars
    /\ UNCHANGED playVars
    /\ UNCHANGED selectVars
    /\ UNCHANGED loadVars

NextEvents ==
    \/ Mount
    \/ PropsChangeEvents
    \/ Unmount
    \/ \E vp \in Viewports : MapEvent(vp)
    \/ StyleUnloads
    \/ StyleLoads
    \/ StyleDataEvent

SpecEvents == InitEvents /\ [][NextEvents]_vars

\* ------------------------------------------------------------------------
\* The overlay renderer with malformed inputs
\* ------------------------------------------------------------------------
\* a station record whose latitude is NaN
StationFB2NaN == [StationFB2 EXCEPT !.latitude = NaN]
\* a station record whose latitude is beyond 90 degrees
StationFB2Out == [StationFB2 EXCEPT !.latitude = FromInt(96)]
\* a station of the north arm the slice holds no value for
StationSJ1 == [id |-> "SJ-1", name |-> "Saltair", longitude |-> One, latitude |-> One]

\* the north polygon without coordinates, with a NaN latitude, and with a
\* latitude beyond 90
FeatureNAEmpty == [layer |-> LAYER_NA, bounds |-> EmptyBounds]
FeatureNANaN == [layer |-> LAYER_NA, bounds |-> <<Zero, One, FromInt(2), NaN>>]
FeatureNAOut == [layer |-> LAYER_NA, bounds |-> <<Zero, One, FromInt(2), FromInt(96)>>]

FaultProps ==
    {BaseProps,
     [BaseProps EXCEPT !.stations = <<StationFB2NaN, StationRD2, StationAS2>>],
     [BaseProps EXCEPT !.stations = <<StationFB2Out, StationRD2, StationAS2, StationSJ1>>,
                       !.currentDataForTimepoint =
                            [id \in {"RD2", "AS2", "FB2"} |->
                                IF id = "RD2" THEN Frac ELSE IF id = "AS2" THEN Three ELSE One]],
     [BaseProps EXCEPT !.lakeData = <<FeatureNAEmpty, FeatureSA>>],
     [BaseProps EXCEPT !.lakeData = <<FeatureNANaN, FeatureSA>>],
     [BaseProps EXCEPT !.lakeData = <<FeatureNAOut, FeatureSA>>]}

PropsChangeFaults == PropsChangeIn(FaultProps)

NextFaults ==
    \/ Mount
    \/ PropsChangeFaults
    \/ Unmount
    \/ \E vp \in Viewports : MapEvent(vp)
    \/ StyleUnloads
    \/ StyleLoads
    \/ StyleDataEvent

SpecFaults == InitEvents /\ [][NextFaults]_vars

\* ------------------------------------------------------------------------
\* Properties of the renderer under the map's events
\* ------------------------------------------------------------------------
\* the steps in which a render trigger reaches the mounted renderer: a
\* map event (nothing but the viewport, the overlay and the pass can
\* change), a render of the page (it mounts the renderer or changes its
\* props), and styledata with a callback pending
MapTrigger ==
    /\ mounted /\ mounted'
    /\ Props' = Props /\ styleLoaded' = styleLoaded /\ styledataOnce' = styledataOnce
PropsTrigger == mounted' /\ (~mounted \/ Props' # Props)
OnceTrigger == mounted /\ mounted' /\ styledataOnce # <<>> /\ styledataOnce' = <<>>

NothingPainted(layer) == layer.images = <<>> /\ layer.content = <<>>

NoProjection(pass) ==
    /\ pass.ran \in {"none", "skipped", "cleared"}
    /\ pass.northScreenPoints = <<>> /\ pass.southScreenPoints = <<>>

OutlinesOf(layer) ==
    LET hits == {i \in 1..Len(layer.content) : layer.content[i].tag = "lake-outlines"}
    IN  IF hits = {} THEN <<>> ELSE layer.content[CHOOSE i \in hits : TRUE].children

MarkerCount(layer, id) ==
    Cardinality({i \in 1..Len(MarkersOf(layer)) : MarkersOf(layer)[i].station = id})

\* the overlay holds every part of a complete pass: an outline for each
\* feature and a marker for each station with coordinates
AllParts(features, stationList, layer) ==
    /\ Len(OutlinesOf(layer)) = Len(features)
    /\ \A st \in 1..Len(stationList) :
          HasCoords(stationList[st]) => MarkerCount(layer, stationList[st].id) = 1

\* C11: a trigger that arrives while the style is not loaded paints
\* nothing and projects nothing: the overlay holds no image, outline or
\* marker after it; a trigger that arrives while the style is loaded runs
\* the complete pass (the inputs here are well-formed), and after a map
\* event or a render of the page the overlay holds the outlines and the
\* markers of the current props.
C11_NotReadySkips ==
    [][(MapTrigger \/ PropsTrigger \/ OnceTrigger) =>
          IF ~styleLoaded
          THEN NothingPainted(overlay') /\ NoProjection(lastPass')
          ELSE /\ lastPass'.ran = "full"
               /\ (MapTrigger \/ PropsTrigger)
                     => AllParts(lakeData', stations', overlay')]_vars

\* a map event reached the renderer while the style was not loaded and
\* wiped the overlay
C11_Witness ==
    /\ mounted /\ ~styleLoaded
    /\ lastPass.ran = "cleared"
    /\ NothingPainted(overlay)

\* new LngLat accepts the station's coordinates
Projectable(station) ==
    HasCoords(station) /\ ~LngLatThrows(station.longitude, station.latitude)

\* every station whose coordinates can be projected has its marker, and
\* its point in the list of its region if the slice holds a number for it
OthersRendered ==
    \A s \in 1..Len(stations) :
        Projectable(stations[s]) =>
            /\ Cardinality(MarkersFor(stations[s].id)) = 1
            /\ HasNumericValue(ValueOf(currentDataForTimepoint, stations[s].id)) =>
                  \E p \in 1..Len(lastPass.northScreenPoints \o lastPass.southScreenPoints) :
                      (lastPass.northScreenPoints \o lastPass.southScreenPoints)[p].value
                          = ValueOf(currentDataForTimepoint, stations[s].id)

\* C12: a map event or a render of the page that arrives while the style
\* is loaded completes its pass without throwing, whatever the stations'
\* coordinates, and leaves the marker and the interpolation point of every
\* station whose coordinates can be projected.
C12_BadStationSkipped ==
    [][((MapTrigger \/ PropsTrigger) /\ styleLoaded) =>
          (lastPass'.ran = "full" /\ OthersRendered')]_vars

\* the region (north = TRUE, south = FALSE) has no polygon to rasterize
\* in the feature list: no feature is detected for it, or the feature
\* looked up for it has bounds that are not finite
RegionFeature(features, north) ==
    FindArmFeature(features, clipIdToSlug(ArmClipId(features, north)))

Unavailable(features, north) ==
    \/ ArmClipId(features, north) = NoClip
    \/ RegionFeature(features, north) = 0
    \/ \E k \in 1..4 : ~IsFinite(GeoBounds(features[RegionFeature(features, north)])[k])

ImagesOf(layer, clipId) == {i \in 1..Len(layer.images) : layer.images[i].clipPath = clipId}

\* the overlay holds no bitmap for a region without polygon, the bitmap of
\* a region that has its polygon and points, one outline per feature and
\* the marker of every station with coordinates
FaultTolerated(features, stationList, layer, pass) ==
    /\ \A north \in BOOLEAN :
          IF Unavailable(features, north)
          THEN ArmClipId(features, north) # NoClip
                  => ImagesOf(layer, ArmClipId(features, north)) = {}
          ELSE Len(IF north THEN pass.northScreenPoints ELSE pass.southScreenPoints) > 0
                  => ImagesOf(layer, ArmClipId(features, north)) # {}
    /\ Len(OutlinesOf(layer)) = Len(features)
    /\ \A st \in 1..Len(stationList) :
          HasCoords(stationList[st]) => MarkerCount(layer, stationList[st].id) = 1

\* C13: a map event or a render of the page that arrives while the style
\* is loaded, with stations whose coordinates can all be projected,
\* completes its pass without throwing, whatever the lake features: a
\* region with no matched feature or with invalid geometry gets no bitmap,
\* the other region is rasterized, and every feature's outline and every
\* station's marker is there.
C13_RegionSkipped ==
    [][((MapTrigger \/ PropsTrigger) /\ styleLoaded /\ FirstThrowing(stations') = 0) =>
          (lastPass'.ran = "full"
           /\ FaultTolerated(lakeData', stations', overlay', lastPass'))]_vars

\* a marker of the station: at the station's projected position, filled
\* from the colour scale of the range and the configuration, titled with
\* the value in the configuration's precision and unit
MarkerShows(mk, station, value, projected, props) ==
    /\ mk.station = station.id
    /\ mk.x = projected.x /\ mk.y = projected.y
    /\ HasNumericValue(value) =>
          /\ mk.fill = ColorScale(props.currentConfig, props.currentRange, value)
          /\ mk.title = <<station.name, ": ", ToFixed(value, props.currentConfig.precision),
                          " ", props.currentConfig.unit>>

\* the outlines are those of the props' features and the markers those of
\* the stations with coordinates (drawn), under the viewport
PartsShow(outlines, markers, drawn, props, vp) ==
    /\ Len(outlines) = Len(props.lakeData)
    /\ \A i \in 1..Len(props.lakeData) : outlines[i].d = GeoPath(vp, props.lakeData[i])
    /\ Len(markers) = Len(drawn)
    /\ \A st \in 1..Len(drawn) :
          MarkerShows(markers[st], drawn[st],
                      ValueOf(props.currentDataForTimepoint, drawn[st].id),
                      Project(vp, drawn[st].longitude, drawn[st].latitude),
                      props)

\* the images are placed where the viewport puts the bounds of the
\* regions' features
ImagesPlaced(images, props, vp) ==
    \A i \in 1..Len(images) :
        \E f \in 1..Len(props.lakeData) :
            /\ images[i].clipPath = ClipIdOf(Slugify(props.lakeData[f].layer), f - 1)
            /\ images[i].x = ImagePlacement(vp, props.lakeData[f]).x
            /\ images[i].y = ImagePlacement(vp, props.lakeData[f]).y
            /\ images[i].width = ImagePlacement(vp, props.lakeData[f]).width
            /\ images[i].height = ImagePlacement(vp, props.lakeData[f]).height

\* the overlay and the pass show the props and the viewport: the points
\* the pass interpolated from, the placement of the images, the outlines
\* of the lake features and the stations' markers are those of these
\* values
ShowsValues(layer, pass, props, vp) ==
    /\ pass.northScreenPoints
          = SelectScreenPoints(props.stations, props.currentDataForTimepoint, vp, TRUE)
    /\ pass.southScreenPoints
          = SelectScreenPoints(props.stations, props.currentDataForTimepoint, vp, FALSE)
    /\ ImagesPlaced(layer.images, props, vp)
    /\ PartsShow(OutlinesOf(layer), MarkersOf(layer), SelectSeq(props.stations, HasCoords),
                 props, vp)

\* C14: while the style is loaded, every map event that reaches the
\* mounted renderer and every render of the page with a changed lake
\* geometry, station list, data slice, colour range or configuration ends
\* in a complete pass, and the overlay then shows the new viewport and the
\* new props.
C14_RerenderOnChange ==
    [][((MapTrigger \/ PropsTrigger) /\ styleLoaded) =>
          (lastPass'.ran = "full" /\ ShowsValues(overlay', lastPass', Props', viewport'))]_vars

\* the overlay of props and of a viewport that both differ from the first
\* ones, after a complete pass
C14_Witness ==
    /\ mounted /\ styleLoaded /\ lastPass.ran = "full"
    /\ Props # BaseProps /\ viewport # ViewportA
    /\ overlay.images # <<>>
    /\ ShowsValues(overlay, lastPass, Props, viewport)
    /\ ~ShowsValues(overlay, lastPass, BaseProps, ViewportA)

\* C15: whatever the interleaving of map events, styledata and renders of
\* the page, the overlay a complete pass left on the mounted renderer is
\* the one of the current props and viewport: no callback registered with
\* older props has painted over it since.
C15_LatestWins ==
    (mounted /\ lastPass.ran = "full") => ShowsValues(overlay, lastPass, Props, viewport)

\* the station has a numeric non-NaN value and numeric non-NaN coordinates
HasValueAndCoords(station, slice) ==
    /\ HasNumericValue(ValueOf(slice, station.id))
    /\ IsValidCoord(station.longitude) /\ IsValidCoord(station.latitude)

\* ... and new LngLat accepts the coordinates
HasValueAndPosition(station, slice) ==
    HasValueAndCoords(station, slice) /\ ~LngLatThrows(station.longitude, station.latitude)

DataPointOf(station, slice, vp) ==
    [x |-> Project(vp, station.longitude, station.latitude).x,
     y |-> Project(vp, station.longitude, station.latitude).y,
     value |-> ValueOf(slice, station.id)]

\* the list of one region (mine) holds one point for each of the stations
\* in `members` assigned to it by id and no other point, and none of their
\* points is in the list of the other region
RegionList(stationList, slice, vp, members, north, mine, other) ==
    /\ Len(mine) = Cardinality({s \in members : (stationList[s].id \in NORTH_ARM_STATION_IDS) = north})
    /\ \A s \in members :
          (stationList[s].id \in NORTH_ARM_STATION_IDS) = north =>
              /\ \E p \in 1..Len(mine) : mine[p] = DataPointOf(stationList[s], slice, vp)
              /\ \A p \in 1..Len(other) : other[p] # DataPointOf(stationList[s], slice, vp)

PartitionedById(stationList, slice, vp, members, pass) ==
    /\ pass.ran \in {"full", "threw"}
    /\ RegionList(stationList, slice, vp, members, TRUE,
                  pass.northScreenPoints, pass.southScreenPoints)
    /\ RegionList(stationList, slice, vp, members, FALSE,
                  pass.southScreenPoints, pass.northScreenPoints)

\* C18: in every pass that runs with the style loaded, every station with
\* a numeric non-NaN value, numeric non-NaN coordinates and a position new
\* LngLat accepts contributes exactly one DataPoint to exactly one region
\* list, north iff its id is one of RD2, SJ-1, LVG4 and south otherwise,
\* whatever its coordinates; every other station contributes to neither.
C18_PartitionById ==
    [][((MapTrigger \/ PropsTrigger) /\ styleLoaded) =>
          PartitionedById(stations', currentDataForTimepoint', viewport',
                          {s \in 1..Len(stations') :
                               HasValueAndPosition(stations'[s], currentDataForTimepoint')},
                          lastPass')]_vars

\* C18 as stated: every station with a numeric non-NaN value and numeric
\* non-NaN coordinates contributes exactly one DataPoint.
C18_Original ==
    [][((MapTrigger \/ PropsTrigger) /\ styleLoaded) =>
          PartitionedById(stations', currentDataForTimepoint', viewport',
                          {s \in 1..Len(stations') :
                               HasValueAndCoords(stations'[s], currentDataForTimepoint')},
                          lastPass')]_vars

\* a pass over a north station, a south station, a station with a value and
\* a latitude beyond 90 and a station without a value: one point in each
\* list, none for the other two
C18_Witness ==
    /\ mounted /\ styleLoaded /\ lastPass.ran \in {"full", "threw"}
    /\ stations = <<StationFB2Out, StationRD2, StationAS2, StationSJ1>>
    /\ ~HasValueAndCoords(StationSJ1, currentDataForTimepoint)
    /\ HasValueAndCoords(StationFB2Out, currentDataForTimepoint)
    /\ lastPass.northScreenPoints = <<DataPointOf(StationRD2, currentDataForTimepoint, viewport)>>
    /\ lastPass.southScreenPoints = <<DataPointOf(StationAS2, currentDataForTimepoint, viewport)>>

\* ------------------------------------------------------------------------
\* The overlay renderer over layer names
\* ------------------------------------------------------------------------
\* layer names put together from a prefix, a middle and a suffix: the two
\* configured names, names whose slug holds 'polyna' or 'polysa' or both,
\* names with white space runs, hyphens, capitals and characters the slug
\* drops, and names whose slug is empty
LayerPrefixes == {<<>>, <<"G", "S", "L", "4", "1", "9", "4">>, <<" ">>, <<"-", "_">>}
LayerMiddles == {<<>>, <<"P", "o", "l", "y">>, <<"P", "o", "l", "y", " ">>,
                 <<"P", "o", "l", "y", "_">>, <<"P", "O", "L", "Y", " ", "-", "\t", "-", " ">>}
LayerSuffixes == {<<>>, <<"N", "A">>, <<"S", "A">>, <<"N", "A", " ", " ">>,
                  <<"N", "A", "p", "o", "l", "y", "s", "a">>, <<"N", ".", "A", "!">>}

SlugLayers == {a \o b \o c : a \in LayerPrefixes, b \in LayerMiddles, c \in LayerSuffixes}

\* the layer of the second feature: the south name, a name with the slug
\* 'polyna', no layer
SlugPartners == {LAYER_SA, <<"P", "o", "l", "y", "N", "A">>, <<>>}

SlugLakeDatas ==
    {<<[layer |-> a, bounds |-> GeoBounds(FeatureNA)],
       [layer |-> b, bounds |-> GeoBounds(FeatureSA)]>> : a \in SlugLayers, b \in SlugPartners}

InitSlug ==
    /\ LoadIdle
    /\ SelectIdle
    /\ PlayIdle
    /\ IdwIdle
    /\ lakeData \in SlugLakeDatas
    /\ stations = BaseProps.stations
    /\ currentDataForTimepoint = BaseProps.currentDataForTimepoint
    /\ currentRange = BaseProps.currentRange
    /\ currentConfig = BaseProps.currentConfig
    /\ viewport = ViewportA
    /\ styleLoaded = TRUE
    /\ mounted = FALSE
    /\ overlay = NoLayer
    /\ styledataOnce = <<>>
    /\ lastPass = NoPass

NextSlug ==
    \/ Mount
    \/ \E vp \in Viewports : MapEvent(vp)
    \/ Unmount

SpecSlug == InitSlug /\ [][NextSlug]_vars

\* ------------------------------------------------------------------------
\* Properties of the region identification and of the slug
\* ------------------------------------------------------------------------
\* the children of <defs>
ClipPathsOf(layer) ==
    IF \E k \in 1..Len(layer.content) : layer.content[k].tag = "defs"
        THEN layer.content[CHOOSE k \in 1..Len(layer.content) : layer.content[k].tag = "defs"].children
        ELSE <<>>

\* the feature at index (from 0) is north: its layer is 'GSL4194PolyNA' or
\* the slug of its clip path holds 'polyna'
IsNorthFeature(feature, index, clipId) ==
    \/ RawLayerOrIndex(feature, index) = LAYER_NA
    \/ Includes(clipIdToSlug(clipId), POLYNA)

\* otherwise it is south: its layer is 'GSL4194PolySA' or the slug holds
\* 'polysa'
IsSouthFeature(feature, index, clipId) ==
    /\ ~IsNorthFeature(feature, index, clipId)
    /\ \/ RawLayerOrIndex(feature, index) = LAYER_SA
       \/ Includes(clipIdToSlug(clipId), POLYSA)

\* the clip id the pass holds for a region is the one of the last feature
\* in `members`, the features of that region; null if there is none
ArmIdIs(armClipId, clips, members) ==
    IF members = {} THEN armClipId = NoClip
    ELSE armClipId = clips[CHOOSE i \in members : \A j \in members : j <= i].id

\* C19: after every pass the north clip id is that of the last feature
\* whose layer is 'GSL4194PolyNA' or whose slug holds 'polyna', the south
\* clip id that of the last other feature whose layer is 'GSL4194PolySA'
\* or whose slug holds 'polysa'; no feature is both, and when both regions
\* are identified their clip ids differ.
C19_RegionsIdentified ==
    (mounted /\ lastPass.ran = "full") =>
        /\ Len(ClipPathsOf(overlay)) = Len(lakeData)
        /\ ArmIdIs(lastPass.northArmClipId, ClipPathsOf(overlay),
                   {i \in 1..Len(lakeData) :
                       IsNorthFeature(lakeData[i], i - 1, ClipPathsOf(overlay)[i].id)})
        /\ ArmIdIs(lastPass.southArmClipId, ClipPathsOf(overlay),
                   {i \in 1..Len(lakeData) :
                       IsSouthFeature(lakeData[i], i - 1, ClipPathsOf(overlay)[i].id)})
        /\ (lastPass.northArmClipId # NoClip /\ lastPass.southArmClipId # NoClip)
              => lastPass.northArmClipId # lastPass.southArmClipId

\* both regions identified, the north one by a slug that holds 'polyna' and
\* 'polysa' from a layer that is not the configured name
C19_Witness ==
    /\ mounted /\ lastPass.ran = "full"
    /\ lastPass.northArmClipId # NoClip /\ lastPass.southArmClipId # NoClip
    /\ lakeData[1].layer # LAYER_NA
    /\ Includes(clipIdToSlug(lastPass.northArmClipId), POLYNA)
    /\ Includes(clipIdToSlug(lastPass.northArmClipId), POLYSA)

\* only [a-z0-9-], no hyphen at either end, no two hyphens in a row
WellFormedSlug(slug) ==
    /\ \A k \in 1..Len(slug) : slug[k] \in SlugChars
    /\ slug # <<>> => (slug[1] # "-" /\ slug[Len(slug)] # "-")
    /\ \A k \in 1..(Len(slug) - 1) : ~(slug[k] = "-" /\ slug[k + 1] = "-")

\* the region's image lies on the bounds of a feature whose slug, as
\* processArm computes it, is the slug of the region's clip id
ArmFeatureFound(armClipId, images, features, vp) ==
    armClipId # NoClip =>
        /\ Cardinality({k \in 1..Len(images) : images[k].clipPath = armClipId}) = 1
        /\ \A k \in 1..Len(images) :
              images[k].clipPath = armClipId =>
                  \E i \in 1..Len(features) :
                      /\ Slugify(features[i].layer) = clipIdToSlug(armClipId)
                      /\ PlacementOf(Project(vp, features[i].bounds[1], features[i].bounds[4]),
                                     Project(vp, features[i].bounds[3], features[i].bounds[2]))
                            = [x |-> images[k].x, y |-> images[k].y,
                               width |-> images[k].width, height |-> images[k].height]

\* C20: the slug in every clip id of a pass holds only [a-z0-9-], has no
\* leading or trailing hyphen and no two consecutive hyphens; and the
\* feature processArm finds for an identified region is one whose slug
\* equals the slug of the region's clip id.
C20_SlugWellFormed ==
    (mounted /\ lastPass.ran = "full") =>
        /\ \A i \in 1..Len(ClipPathsOf(overlay)) :
              WellFormedSlug(clipIdToSlug(ClipPathsOf(overlay)[i].id))
        /\ ArmFeatureFound(lastPass.northArmClipId, overlay.images, lakeData, viewport)
        /\ ArmFeatureFound(lastPass.southArmClipId, overlay.images, lakeData, viewport)

\* a layer with a hyphen and a dropped character in front, capitals and
\* white space at the end, identified as north and rasterized on its bounds
C20_Witness ==
    /\ mounted /\ lastPass.ran = "full"
    /\ lakeData[1].layer = <<"-", "_", "P", "o", "l", "y", "_", "N", "A", " ", " ">>
    /\ clipIdToSlug(lastPass.northArmClipId) = POLYNA
    /\ \E k \in 1..Len(overlay.images) :
          /\ overlay.images[k].clipPath = lastPass.northArmClipId
          /\ overlay.images[k].width = ImagePlacement(viewport, lakeData[1]).width

\* C29: in every complete pass the clip paths of distinct features have
\* distinct ids.
C29_DistinctClipIds ==
    (mounted /\ lastPass.ran = "full") =>
        \A i, j \in 1..Len(ClipPathsOf(overlay)) :
            i # j => ClipPathsOf(overlay)[i].id # ClipPathsOf(overlay)[j].id

\* C26: a trigger that reaches the renderer while the style is not loaded
\* ends in the guard of renderOverlay (or, in a render of the page, in the
\* setup effect that appends a fresh layer), and whenever the last call of
\* the mounted renderer ended there both the image group and the content
\* group are empty: the frame painted before is gone and stays gone until
\* a pass gets beyond the guard.
NotReadyTrigger == (MapTrigger \/ PropsTrigger \/ OnceTrigger) /\ ~styleLoaded

StoppedAtGuard(pass) == pass.ran \in {"none", "cleared"}

EmptyAfterGuard == (mounted' /\ StoppedAtGuard(lastPass')) => NothingPainted(overlay')

C25_AllReleased == ~mounted => (overlay = NoLayer /\ styledataOnce = <<>>)

\* ------------------------------------------------------------------------
\* Properties of a pass over a region without points
\* ------------------------------------------------------------------------
\* the markers of the stations the slice holds no number for have the
\* no-data fill
NoDataStyled(stationList, slice, layer) ==
    \A m \in 1..Len(MarkersOf(layer)) :
        (\E st \in 1..Len(stationList) :
            /\ stationList[st].id = MarkersOf(layer)[m].station
            /\ ~HasNumericValue(ValueOf(slice, stationList[st].id)))
        => MarkersOf(layer)[m].fill = NO_DATA_FILL

\* the region with the point list `mine` has no painted cell (and no image
\* at all when there are stations); the outlines and the markers are
\* there; the other region has the image processArm draws from its points
EmptyRegionSkipped(mine, mineClip, other, otherClip) ==
    mine = <<>> =>
        /\ ~HasPainted(RegionBitmap(overlay.images, mineClip))
        /\ (stations # <<>> /\ mineClip # NoClip) => ImagesOf(overlay, mineClip) = {}
        /\ AllParts(lakeData, stations, overlay)
        /\ NoDataStyled(stations, currentDataForTimepoint, overlay)
        /\ (other # <<>> /\ otherClip # NoClip) =>
              /\ Cardinality(ImagesOf(overlay, otherClip)) = 1
              /\ \A i \in ImagesOf(overlay, otherClip) :
                    <<overlay.images[i]>>
                        = processArm(<<>>, other, otherClip, HEATMAP_RESOLUTION_WIDTH,
                                     HEATMAP_RESOLUTION_HEIGHT, PassInputs)

\* C21: after a complete pass in which a region has no contributing point,
\* no heatmap cell is painted for that region, every feature has its
\* outline and every station with coordinates its marker (with the no-data
\* fill where the slice holds no number), and the other region has the
\* bitmap rasterized from its own points.
C21_EmptyRegion ==
    Rendered =>
        /\ EmptyRegionSkipped(lastPass.northScreenPoints, lastPass.northArmClipId,
                              lastPass.southScreenPoints, lastPass.southArmClipId)
        /\ EmptyRegionSkipped(lastPass.southScreenPoints, lastPass.southArmClipId,
                              lastPass.northScreenPoints, lastPass.northArmClipId)

\* the north has no point because its station has a NaN value; its marker
\* has the no-data fill; the south is painted
C21_Witness ==
    /\ Rendered
    /\ lastPass.northArmClipId # NoClip
    /\ lastPass.northScreenPoints = <<>>
    /\ \E st \in 1..Len(stations) :
          /\ stations[st].id = "RD2" /\ HasCoords(stations[st])
          /\ ValueOf(currentDataForTimepoint, "RD2") = NaN
    /\ ImagesOf(overlay, lastPass.northArmClipId) = {}
    /\ HasPainted(RegionBitmap(overlay.images, lastPass.southArmClipId))

\* ------------------------------------------------------------------------
\* The variable selection alone
\* ------------------------------------------------------------------------
InitSelect ==
    /\ LoadIdle
    /\ PlayIdle
    /\ IdwIdle
    /\ RenderIdle
    /\ SelectIdle

NextSelect ==
    \/ \E keys \in KeyLists : LoadAllData(keys)
    \/ \E value \in DataKeys : SelectVariable(value)
    \/ RunSelectionEffect

SpecSelect == InitSelect /\ [][NextSelect]_vars

\* C22: once the correcting effect has run, selectedVariable is one of
\* availableVariables; availableVariables is never empty and holds only
\* density and salinity.
C22_SelectedAvailable ==
    /\ Len(availableVariables) > 0
    /\ \A i \in 1..Len(availableVariables) : availableVariables[i] \in {"density", "salinity"}
    /\ ~SelectEffectPending => SeqIncludes(availableVariables, selectedVariable)

\* salinity was selected, data without salinity arrived, and the effect
\* that ran with the selection salinity has moved it to density
C22_Witness ==
    /\ selectDeps = <<<<"density">>, "salinity">>
    /\ availableVariables = <<"density">>
    /\ selectedVariable = "density"

\* ------------------------------------------------------------------------
\* The loading effect alone
\* ------------------------------------------------------------------------
InitLoad ==
    /\ SelectIdle
    /\ PlayIdle
    /\ IdwIdle
    /\ RenderIdle
    /\ LoadIdle

NextLoad ==
    \/ MountSelf
    \/ UnmountSelf
    \/ \E i \in 1..Len(runs) : \E geoJsonResult \in GeoJsonResults :
          GeoJsonResolves(i, geoJsonResult)
    \/ \E i \in 1..Len(runs) : \E dataResult \in SiteDataResults :
          SiteDataResolves(i, dataResult)

SpecLoad == InitLoad /\ [][NextLoad]_vars

\* a load of the mounted component is under way
LoadUnderWay == \E i \in 1..Len(runs) : runs[i].isMounted /\ runs[i].pc # "done"

\* C27: loadSiteAndTempData is called at most MAX_RETRIES times per mount,
\* and once a result has been applied no load is under way.
C27_AtMostMaxRetries ==
    /\ calls <= MAX_RETRIES
    /\ (selfMounted /\ loadState.siteData # 0) => ~LoadUnderWay

\* run i goes on after one of its awaits
Advances(i) == runs'[i].pc # runs[i].pc

\* C28: a run of the effect that was cleaned up writes no state and starts
\* no load when one of its promises resolves, and every write to the state
\* of the mounted component comes from the most recent run.
C28_StaleNeverWrites ==
    [][/\ \A i \in 1..Len(runs) :
             (Advances(i) /\ ~runs[i].isMounted)
                => UNCHANGED <<loadState, retries, usingMockData, calls>>
       /\ (selfMounted /\ selfMounted'
              /\ <<loadState, retries, usingMockData>>' # <<loadState, retries, usingMockData>>)
             => Advances(Len(runs))]_vars

\* the component was unmounted during a load and mounted again: the
\* promise of the old run resolved and was dropped, the state holds what
\* the run of the second mount applied
C28_Witness ==
    /\ selfMounted
    /\ \E i \in 1..Len(runs) :
          /\ runs[i].outcome = "dropped"
          /\ loadState.siteData > i
          /\ loadState.lakeData > i
====
